---- MODULE Spec2Model ----
(***************************************************************************)
(* A model of assert_cmd: the OutputOkExt family (ok / unwrap /            *)
(* unwrap_err), OutputError and its Display, the stdin feeder and the      *)
(* Assert chain of checks.                                                 *)
(*                                                                         *)
(* Text is modelled as Rust holds it: a String is its sequence of UTF-8    *)
(* bytes, a Vec<u8> a sequence of bytes.  An Option<T> is a sequence of    *)
(* length 0 (None) or 1 (Some).  A formatted message is the sequence of    *)
(* pieces written to the formatter: literal pieces of the format string    *)
(* (Lit; a label such as "stdout=" is a piece of its own) and rendered     *)
(* arguments (Txt, a byte sequence).                                       *)
(***************************************************************************)
EXTENDS Integers, Sequences, FiniteSets, TLC

(***************************************************************************)
(* Bounds of the model.                                                    *)
(***************************************************************************)
\* longest captured stdout buffer
MaxOutLen == 2
\* most set_cmd / set_stdin calls applied to one OutputError
MaxSets == 2
\* most chained calls on one Assert
MaxChain == 2

\* longest short buffer handed to format_bytes
MaxFmtLen == 3

\* longest string written to a NewlineRestorer
MaxTextLen == 4

\* longest stdin buffer fed to a child, largest capacity of a pipe, most
\* bytes a child writes to one of its streams
MaxFeedLen == 3

MaxPipeCap == 2

MaxChildOut == 2

\* lines beyond the line threshold, bytes beyond the byte threshold
MaxExtraLines == 2

MaxExtraBytes == 1

(***************************************************************************)
(* Option<T>                                                               *)
(***************************************************************************)
None == <<>>

Some(x) == <<x>>

IsSome(o) == Len(o) = 1

IsNone(o) == Len(o) = 0

(***************************************************************************)
(* Bytes and buffers.  10 = '\n', 104 = 'h', 195 169 = U+00E9 in UTF-8,    *)
(* so the buffers include text, a two-byte character, and sequences that   *)
(* are not valid UTF-8 (a lone 195, a lone 169, 195 followed by 104).      *)
(***************************************************************************)
SeqsUpTo(S, n) == UNION {[1..k -> S] : k \in 0..n}

StdoutBufs == SeqsUpTo({104, 195}, MaxOutLen) \cup {<<10>>, <<104, 10>>, <<195, 169>>}

\* captured stderr buffers: empty, "h", and one that is not UTF-8
StderrBufs == {<<>>, <<104>>, <<195>>}

\* stdin buffers a caller supplies: empty, "42", and one that is not UTF-8
StdinBufs == {<<>>, <<52, 50>>, <<195>>}

\* exit codes a child reports
Codes == {0, 1, 42}

\* ExitStatus::code(): Some(code), or None when the child was killed by a signal
StatusCodes == {None} \cup {Some(c) : c \in Codes}

\* errors the operating system reports to the parent
LaunchErrors == {"NotFound"}

WriteErrors == {"BrokenPipe"}

\* argv of the commands under test: "cat", and "x" "-A"
Argvs == {<<<<99, 97, 116>>>>, <<<<120>>, <<45, 65>>>>}

(***************************************************************************)
(* std::process::Output and std::io::Result<Output>                        *)
(***************************************************************************)
Output(code, stdout, stderr) == [code |-> code, stdout |-> stdout, stderr |-> stderr]

\* a run whose launch fails reports nothing: one fixed outcome stands for it
NoOutcome == Output(None, <<>>, <<>>)

Outputs == {Output(c, o, e) : c \in StatusCodes, o \in StdoutBufs, e \in StderrBufs}

\* ExitStatus::success(): the child exited, and with code 0
success(output) == output.code = Some(0)

IoOk(output) == [tag |-> "Ok", output |-> Some(output), error |-> None]

IoErr(e) == [tag |-> "Err", output |-> None, error |-> Some(e)]

(***************************************************************************)
(* OutputError, OutputCause and OutputResult                               *)
(***************************************************************************)
Expected(output) == [tag |-> "Expected", output |-> Some(output), error |-> None]

Unexpected(e) == [tag |-> "Unexpected", output |-> None, error |-> Some(e)]

OutputError_new(output) == [cmd |-> None, stdin |-> None, cause |-> Expected(output)]

with_cause(cause) == [cmd |-> None, stdin |-> None, cause |-> Unexpected(cause)]

\* as set_cmd, but the error is built anew and the stdin context is lost
set_cmd_DropsStdin(self, cmd) == [self EXCEPT !.cmd = Some(cmd), !.stdin = None]

set_cmd(self, cmd) == [self EXCEPT !.cmd = Some(cmd)]

set_stdin(self, stdin) == [self EXCEPT !.stdin = Some(stdin)]

as_output(self) == IF self.cause.tag = "Expected" THEN self.cause.output ELSE None

Ok(output) == [tag |-> "Ok", output |-> Some(output), err |-> None]

Err(e) == [tag |-> "Err", output |-> None, err |-> Some(e)]

(***************************************************************************)
(* format!("{:?}", command): the program and each argument, each quoted,   *)
(* separated by a blank (the arguments of the model need no escaping).     *)
(***************************************************************************)
RECURSIVE DebugCommand(_)
DebugCommand(argv) ==
    IF argv = <<>> THEN <<>>
    ELSE IF Len(argv) = 1 THEN <<34>> \o argv[1] \o <<34>>
    ELSE <<34>> \o argv[1] \o <<34, 32>> \o DebugCommand(Tail(argv))

(***************************************************************************)
(* Running a child.  The operating system's part of a run is fixed by     *)
(* `world`: whether the launch succeeds, whether writing the stdin buffer  *)
(* to the started child succeeds, and what the child reports when waited   *)
(* for.                                                                    *)
(***************************************************************************)
\* Command::output(): spawn, then wait for the child and collect its output
Command_output(w) ==
    IF w.launch # "ok" THEN IoErr(w.launch) ELSE IoOk(w.outcome)

\* StdInCommand::spawn(): Ok (the child) or the error of spawn()? or write_all()?
StdInCommand_spawn(w) ==
    IF w.launch # "ok" THEN IoErr(w.launch)
    ELSE IF w.write # "ok" THEN IoErr(w.write)
    ELSE IoOk(w.outcome)

\* StdInCommand::output(): self.spawn()?.wait_with_output()
StdInCommand_output(w) == StdInCommand_spawn(w)

\* number of children a call of output() starts
Started(w) == IF w.launch = "ok" THEN 1 ELSE 0

\* what became of the child of Command::output()
Command_child(w) == IF w.launch = "ok" THEN "waited" ELSE "none"

\* what became of the child of StdInCommand::output(): wait_with_output() is
\* reached only when spawn() returned Ok
StdInCommand_child(w) ==
    IF w.launch # "ok" THEN "none"
    ELSE IF w.write # "ok" THEN "unwaited"
    ELSE "waited"

(***************************************************************************)
(* OutputOkExt::ok, one definition per implementation                      *)
(***************************************************************************)
\* as ok_Output, but an interrupted child counts as a success
ok_Output_InterruptedIsOk(self) ==
    IF success(self.output) \/ IsNone(self.output.code) THEN Ok(self.output)
    ELSE Err(OutputError_new(self.output))

ok_Output(self) ==
    IF success(self.output) THEN Ok(self.output)
    ELSE Err(OutputError_new(self.output))

\* as ok_Command, but a failed launch is reported as an empty failed run
ok_Command_LaunchAsRun(self, w) ==
    LET output == Command_output(w) IN
    IF output.tag = "Err"
    THEN Err(set_cmd(OutputError_new(Output(None, <<>>, <<>>)), DebugCommand(self.argv)))
    ELSE IF success(output.output[1]) THEN Ok(output.output[1])
    ELSE Err(set_cmd(OutputError_new(output.output[1]), DebugCommand(self.argv)))

ok_Command(self, w) ==
    LET output == Command_output(w) IN
    IF output.tag = "Err" THEN Err(with_cause(output.error[1]))
    ELSE IF success(output.output[1]) THEN Ok(output.output[1])
    ELSE Err(set_cmd(OutputError_new(output.output[1]), DebugCommand(self.argv)))

\* as ok_StdInCommand, but the stdin buffer is not attached
ok_StdInCommand_NoStdin(self, w) ==
    LET output == StdInCommand_output(w) IN
    IF output.tag = "Err" THEN Err(with_cause(output.error[1]))
    ELSE IF success(output.output[1]) THEN Ok(output.output[1])
    ELSE Err(set_cmd(OutputError_new(output.output[1]), DebugCommand(self.argv)))

ok_StdInCommand(self, w) ==
    LET output == StdInCommand_output(w) IN
    IF output.tag = "Err" THEN Err(with_cause(output.error[1]))
    ELSE IF success(output.output[1]) THEN Ok(output.output[1])
    ELSE Err(set_stdin(set_cmd(OutputError_new(output.output[1]),
                               DebugCommand(self.argv)),
                       self.stdin))

ok(self, w) ==
    CASE self.kind = "Output" -> ok_Output(self)
      [] self.kind = "Command" -> ok_Command(self, w)
      [] self.kind = "StdInCommand" -> ok_StdInCommand(self, w)

\* children started, and what became of the child, by the receiver's output()
\* as Spawns, but a failed write of the stdin buffer is followed by a second run
Spawns_Retry(self, w) ==
    IF self.kind = "Output" THEN 0
    ELSE IF self.kind = "StdInCommand" /\ w.write # "ok" THEN 2 * Started(w)
    ELSE Started(w)

\* children started by an entry call on the receiver
Spawns(self, w) == IF self.kind = "Output" THEN 0 ELSE Started(w)

\* calls of output() an entry call makes: one on a specification, none on a
\* captured Output
Attempts(self) == IF self.kind = "Output" THEN 0 ELSE 1

ChildAfter(self, w) ==
    CASE self.kind = "Output" -> "none"
      [] self.kind = "Command" -> Command_child(w)
      [] self.kind = "StdInCommand" -> StdInCommand_child(w)

(***************************************************************************)
(* Formatted messages and the helpers of the rendering                     *)
(***************************************************************************)
\* a literal piece of a format string
Lit(s) == [kind |-> "lit", lit |-> s, txt |-> <<>>]

\* n backticks of a format string
Tick(n) == [kind |-> "lit", lit |-> "", txt |-> [i \in 1..n |-> 96]]

\* a rendered argument: the bytes of its text
Txt(b) == [kind |-> "txt", lit |-> "", txt |-> b]

\* the strings ss[lo..hi] one after the other; halving keeps the nesting of
\* the evaluation logarithmic in the number of strings
RECURSIVE ConcatRange(_, _, _)
ConcatRange(ss, lo, hi) ==
    IF lo > hi THEN <<>>
    ELSE IF lo = hi THEN ss[lo]
    ELSE LET mid == (lo + hi) \div 2 IN
         ConcatRange(ss, lo, mid) \o ConcatRange(ss, mid + 1, hi)

Concat(ss) == ConcatRange(ss, 1, Len(ss))

RECURSIVE DecNat(_)
DecNat(n) == IF n < 10 THEN <<48 + n>> ELSE DecNat(n \div 10) \o <<48 + (n % 10)>>

\* "{}" of an integer
Dec(n) == IF n < 0 THEN <<45>> \o DecNat(-n) ELSE DecNat(n)

HexDigit(d, upper) == IF d < 10 THEN 48 + d ELSE IF upper THEN 55 + d ELSE 87 + d

\* length of the UTF-8 encoded character that starts at b[i], 0 when none does
Utf8Len(b, i) ==
    LET c == b[i]
        n == Len(b)
        in(j, lo, hi) == j <= n /\ b[j] >= lo /\ b[j] <= hi
        cont(j) == in(j, 128, 191)
    IN  IF c < 128 THEN 1
        ELSE IF c >= 194 /\ c <= 223 /\ cont(i + 1) THEN 2
        ELSE IF c = 224 /\ in(i + 1, 160, 191) /\ cont(i + 2) THEN 3
        ELSE IF ((c >= 225 /\ c <= 236) \/ c = 238 \/ c = 239)
                /\ cont(i + 1) /\ cont(i + 2) THEN 3
        ELSE IF c = 237 /\ in(i + 1, 128, 159) /\ cont(i + 2) THEN 3
        ELSE IF c = 240 /\ in(i + 1, 144, 191) /\ cont(i + 2) /\ cont(i + 3) THEN 4
        ELSE IF c >= 241 /\ c <= 243 /\ cont(i + 1) /\ cont(i + 2) /\ cont(i + 3) THEN 4
        ELSE IF c = 244 /\ in(i + 1, 128, 143) /\ cont(i + 2) /\ cont(i + 3) THEN 4
        ELSE 0

RECURSIVE IsUtf8From(_, _)
IsUtf8From(b, i) ==
    IF i > Len(b) THEN TRUE
    ELSE IF Utf8Len(b, i) = 0 THEN FALSE
    ELSE IsUtf8From(b, i + Utf8Len(b, i))

\* str::from_utf8(buffer).is_ok()
IsUtf8(b) == IsUtf8From(b, 1)

RECURSIVE DebugItems(_)
DebugItems(b) ==
    IF b = <<>> THEN <<>>
    ELSE IF Len(b) = 1 THEN Dec(b[1])
    ELSE Dec(b[1]) \o <<44, 32>> \o DebugItems(Tail(b))

\* "{:?}" of a byte slice: [195, 104]
DebugSlice(b) == <<91>> \o DebugItems(b) \o <<93>>

\* the text when the buffer is UTF-8, the list of its bytes otherwise
dump_buffer(buffer) == IF IsUtf8(buffer) THEN buffer ELSE DebugSlice(buffer)

write_buffer(buffer) == IF IsUtf8(buffer) THEN buffer ELSE DebugSlice(buffer)

(***************************************************************************)
(* format_bytes and the NewlineRestorer                                    *)
(***************************************************************************)
LINES_MIN_OVERFLOW == 40

LINES_MAX_START == 10

\* as LINES_MAX_END, but with the first lines as many as the threshold
LINES_MAX_END_UpToOverflow == LINES_MIN_OVERFLOW - LINES_MAX_START

LINES_MAX_END == 10

LINES_MAX_PRINTED == LINES_MAX_START + LINES_MAX_END

BYTES_MIN_OVERFLOW == 8192

BYTES_MAX_START == 2048

BYTES_MAX_END == 2048

BYTES_MAX_PRINTED == BYTES_MAX_START + BYTES_MAX_END

\* char::escape_debug of an ASCII character, with bstr's own cases for NUL
\* and the control characters
EscapeAscii(c) ==
    IF c = 0 THEN <<92, 48>>
    ELSE IF c = 9 THEN <<92, 116>>
    ELSE IF c = 10 THEN <<92, 110>>
    ELSE IF c = 13 THEN <<92, 114>>
    ELSE IF c = 34 THEN <<92, 34>>
    ELSE IF c = 39 THEN <<92, 39>>
    ELSE IF c = 92 THEN <<92, 92>>
    ELSE IF c >= 26 /\ c <= 31
         THEN <<92, 117, 123, HexDigit(c \div 16, FALSE), HexDigit(c % 16, FALSE), 125>>
    ELSE IF c < 32 \/ c = 127
         THEN <<92, 120, HexDigit(c \div 16, FALSE), HexDigit(c % 16, FALSE)>>
    ELSE <<c>>

\* a character starts at b[i]: b[i] is not a continuation byte of an encoded
\* character that starts up to three bytes before it
IsCharStart(b, i) ==
    \A k \in 1..3 : (i - k >= 1) => Utf8Len(b, i - k) <= k

\* what "{:?}" of a BStr writes for the character at b[i]: the character
\* escaped (a byte that is not UTF-8 as \xNN; a character outside ASCII is
\* taken to be printable and is written as it is), nothing for a byte inside
\* a character
EscapeAt(b, i) ==
    IF ~IsCharStart(b, i) THEN <<>>
    ELSE LET k == Utf8Len(b, i) IN
         IF k = 0
         THEN <<92, 120, HexDigit(b[i] \div 16, TRUE), HexDigit(b[i] % 16, TRUE)>>
         ELSE IF k = 1 THEN EscapeAscii(b[i])
         ELSE SubSeq(b, i, i + k - 1)

NonEmpty(piece) == piece # <<>>

\* the pieces "{:?}" of a BStr writes one after the other: the opening quote,
\* each character escaped, the closing quote
\* (the scan of the characters from the left, one piece per character)
EscapeFrom(b, i) ==
    SelectSeq([j \in 1..(Len(b) - i + 1) |-> EscapeAt(b, i + j - 1)], NonEmpty)

\* as DebugBStrPieces, but without the two quotes
DebugBStrPieces_NoQuotes(b) == EscapeFrom(b, 1)

DebugBStrPieces(b) == <<<<34>>>> \o EscapeFrom(b, 1) \o <<<<34>>>>

\* format!("{:?}", data.as_bstr())
DebugBStr(b) == Concat(DebugBStrPieces(b))

\* str::replace("\\n", "\n"): every backslash followed by n becomes a
\* newline (two matches cannot overlap: the second character of a match is
\* n, the first of the next a backslash)
ReplaceEscapedNewlines(s) ==
    Concat([i \in 1..Len(s) |->
               IF s[i] = 92 /\ i < Len(s) /\ s[i + 1] = 110 THEN <<10>>
               ELSE IF s[i] = 110 /\ i > 1 /\ s[i - 1] = 92 THEN <<>>
               ELSE <<s[i]>>])

RECURSIVE TrailingBackslashes(_)
TrailingBackslashes(s) ==
    IF s = <<>> \/ s[Len(s)] # 92 THEN 0
    ELSE 1 + TrailingBackslashes(SubSeq(s, 1, Len(s) - 1))

\* NewlineRestorer::new: nothing written, no pending backslash
NewlineRestorer_new == [inner |-> <<>>, trailing_backslash |-> FALSE]

\* as write_str, but an escaped newline is written as it came
write_str_KeepsEscapes(self, s) ==
    LET buf == (IF self.trailing_backslash THEN <<92>> ELSE <<>>) \o s
        odd == TrailingBackslashes(buf) % 2 # 0
        kept == IF odd THEN SubSeq(buf, 1, Len(buf) - 1) ELSE buf
    IN  [inner |-> self.inner \o kept, trailing_backslash |-> odd]

\* NewlineRestorer::write_str
write_str(self, s) ==
    LET buf == (IF self.trailing_backslash THEN <<92>> ELSE <<>>) \o s
        odd == TrailingBackslashes(buf) % 2 # 0
        kept == IF odd THEN SubSeq(buf, 1, Len(buf) - 1) ELSE buf
    IN  [inner |-> self.inner \o ReplaceEscapedNewlines(kept),
         trailing_backslash |-> odd]

\* as drop, but a pending backslash is not written
drop_Forgets(self) == self.inner

\* Drop for NewlineRestorer: the text the inner writer holds afterwards
drop(self) ==
    IF self.trailing_backslash THEN self.inner \o <<92>> ELSE self.inner

\* write_str of pieces[lo..hi], one call after the other from the left
RECURSIVE write_range(_, _, _, _)
write_range(self, pieces, lo, hi) ==
    IF lo > hi THEN self
    ELSE IF lo = hi THEN write_str(self, pieces[lo])
    ELSE LET mid == (lo + hi) \div 2
             left == write_range(self, pieces, lo, mid)
         IN  IF left.trailing_backslash \in BOOLEAN
             THEN write_range(left, pieces, mid + 1, hi)
             ELSE left

write_all_pieces(self, pieces) == write_range(self, pieces, 1, Len(pieces))

restore_newlines(s) == drop(write_str(NewlineRestorer_new, s))

\* the positions of the newlines of s, ascending
Newlines(s) ==
    LET IsNewline(j) == s[j] = 10 IN SelectSeq([j \in 1..Len(s) |-> j], IsNewline)

\* str::lines(): the text cut at its newlines, without a last empty line
\* (the rendering holds no carriage return: "{:?}" escapes it)
Lines(s) ==
    LET nl == Newlines(s)
        n == Len(nl)
        first(i) == IF i = 1 THEN 1 ELSE nl[i - 1] + 1
        rest == IF n = 0 THEN 1 ELSE nl[n] + 1
    IN  [i \in 1..n |-> SubSeq(s, first(i), nl[i] - 1)]
        \o (IF rest <= Len(s) THEN <<SubSeq(s, rest, Len(s))>> ELSE <<>>)

\* [&str]::join("\n")
RECURSIVE JoinLines(_)
JoinLines(ls) ==
    IF ls = <<>> THEN <<>>
    ELSE IF Len(ls) = 1 THEN ls[1]
    ELSE ls[1] \o <<10>> \o JoinLines(Tail(ls))

\* as format_bytes, but the last lines are taken from one line too early
format_bytes_LastLinesEarly(data) ==
    LET data_as_bstr == restore_newlines(DebugBStr(data))
        lines == Lines(SubSeq(data_as_bstr, 2, Len(data_as_bstr) - 1))
    IN  IF Len(lines) >= LINES_MIN_OVERFLOW
        THEN <<60>> \o Dec(Len(lines)) \o <<32, 108, 105, 110, 101, 115, 32, 116, 111, 116, 97, 108, 62>> \o <<34>>
             \o JoinLines(SubSeq(lines, 1, LINES_MAX_START)) \o <<34, 10, 60>>
             \o Dec(Len(lines) - LINES_MAX_PRINTED) \o <<32, 108, 105, 110, 101, 115, 32, 111, 109, 105, 116, 116, 101, 100, 62>> \o <<10, 34>>
             \o JoinLines(SubSeq(lines, Len(lines) - LINES_MAX_END, Len(lines) - 1))
             \o <<34>>
        ELSE IF Len(data) >= BYTES_MIN_OVERFLOW
        THEN drop(write_all_pieces(NewlineRestorer_new,
                 <<<<60>>, Dec(Len(data)), <<32, 98, 121, 116, 101, 115, 32, 116, 111, 116, 97, 108, 62>>>>
                 \o DebugBStrPieces(SubSeq(data, 1, BYTES_MAX_START))
                 \o <<<<46, 46, 46, 60>>, Dec(Len(data) - BYTES_MAX_PRINTED),
                      <<32, 98, 121, 116, 101, 115, 32, 111, 109, 105, 116, 116, 101, 100, 62, 46, 46, 46>>>>
                 \o DebugBStrPieces(SubSeq(data, Len(data) - BYTES_MAX_END + 1,
                                           Len(data)))))
        ELSE data_as_bstr

format_bytes(data) ==
    LET data_as_bstr == restore_newlines(DebugBStr(data))
        lines == Lines(SubSeq(data_as_bstr, 2, Len(data_as_bstr) - 1))
    IN  IF Len(lines) >= LINES_MIN_OVERFLOW
        THEN <<60>> \o Dec(Len(lines)) \o <<32, 108, 105, 110, 101, 115, 32, 116, 111, 116, 97, 108, 62>> \o <<34>>
             \o JoinLines(SubSeq(lines, 1, LINES_MAX_START)) \o <<34, 10, 60>>
             \o Dec(Len(lines) - LINES_MAX_PRINTED) \o <<32, 108, 105, 110, 101, 115, 32, 111, 109, 105, 116, 116, 101, 100, 62>> \o <<10, 34>>
             \o JoinLines(SubSeq(lines, Len(lines) - LINES_MAX_END + 1, Len(lines)))
             \o <<34>>
        ELSE IF Len(data) >= BYTES_MIN_OVERFLOW
        THEN drop(write_all_pieces(NewlineRestorer_new,
                 <<<<60>>, Dec(Len(data)), <<32, 98, 121, 116, 101, 115, 32, 116, 111, 116, 97, 108, 62>>>>
                 \o DebugBStrPieces(SubSeq(data, 1, BYTES_MAX_START))
                 \o <<<<46, 46, 46, 60>>, Dec(Len(data) - BYTES_MAX_PRINTED),
                      <<32, 98, 121, 116, 101, 115, 32, 111, 109, 105, 116, 116, 101, 100, 62, 46, 46, 46>>>>
                 \o DebugBStrPieces(SubSeq(data, Len(data) - BYTES_MAX_END + 1,
                                           Len(data)))))
        ELSE data_as_bstr

\* &s[lo..hi] of len items, lo counted from 0 and hi not included, is in range
InRange(len, lo, hi) == 0 <= lo /\ lo <= hi /\ hi <= len

\* the panic of format_bytes, None when it returns: the two assert!s on the
\* constants, the subtractions on usize, and each slice in the order of the
\* code (a str is cut on character boundaries only)
format_bytes_fault(data) ==
    LET data_as_bstr == restore_newlines(DebugBStr(data))
        n == Len(data_as_bstr)
        lines == Lines(SubSeq(data_as_bstr, 2, n - 1))
    IN  IF ~(LINES_MAX_PRINTED < LINES_MIN_OVERFLOW) \/ ~(BYTES_MAX_PRINTED < BYTES_MIN_OVERFLOW)
        THEN Some("assertion failed")
        ELSE IF n < 1 \/ ~InRange(n, 1, n - 1)
                \/ ~IsCharStart(data_as_bstr, 2) \/ ~IsCharStart(data_as_bstr, n)
        THEN Some("str slice out of range")
        ELSE IF Len(lines) >= LINES_MIN_OVERFLOW
        THEN IF ~InRange(Len(lines), 0, LINES_MAX_START)
                \/ Len(lines) < LINES_MAX_PRINTED
                \/ Len(lines) < LINES_MAX_END
                \/ ~InRange(Len(lines), Len(lines) - LINES_MAX_END, Len(lines))
             THEN Some("slice index out of range")
             ELSE None
        ELSE IF Len(data) >= BYTES_MIN_OVERFLOW
        THEN IF ~InRange(Len(data), 0, BYTES_MAX_START)
                \/ Len(data) < BYTES_MAX_PRINTED
                \/ Len(data) < BYTES_MAX_END
                \/ ~InRange(Len(data), Len(data) - BYTES_MAX_END, Len(data))
             THEN Some("slice index out of range")
             ELSE None
        ELSE None

\* "{}" of DebugBytes::new(bytes) and of DebugBuffer::new(buffer)
DebugBytes(bytes) == format_bytes(bytes)

(***************************************************************************)
(* Display of OutputError (output.rs).  Palette::paint writes its item     *)
(* unchanged when no colour is in use.                                     *)
(***************************************************************************)
paint(item) == item

output_fmt(output) ==
    (IF IsSome(output.code)
     THEN <<paint(Lit("code")), Lit("="), paint(Txt(Dec(output.code[1]))), Lit("\n")>>
     ELSE <<paint(Lit("code")), Lit("="), paint(Lit("<interrupted>")), Lit("\n")>>)
    \o <<paint(Lit("stdout")), Lit("="), paint(Txt(DebugBytes(output.stdout))), Lit("\n"),
         paint(Lit("stderr")), Lit("="), paint(Txt(DebugBytes(output.stderr))), Lit("\n")>>

\* "{}" of an io::Error: its message
Display_io_Error(e) == <<Lit(e)>>

Display_OutputCause(cause) ==
    IF cause.tag = "Expected" THEN output_fmt(cause.output[1])
    ELSE Display_io_Error(cause.error[1])

\* as the Display of OutputError, but the stdin buffer is written first
Display_OutputError_StdinFirst(self) ==
    (IF IsSome(self.stdin)
     THEN <<paint(Lit("stdin")), Lit("="), paint(Txt(DebugBytes(self.stdin[1]))),
            Lit("\n")>>
     ELSE <<>>)
    \o (IF IsSome(self.cmd)
        THEN <<paint(Lit("command")), Lit("="), paint(Txt(self.cmd[1])), Lit("\n")>>
        ELSE <<>>)
    \o Display_OutputCause(self.cause)

Display_OutputError(self) ==
    (IF IsSome(self.cmd)
     THEN <<paint(Lit("command")), Lit("="), paint(Txt(self.cmd[1])), Lit("\n")>>
     ELSE <<>>)
    \o (IF IsSome(self.stdin)
        THEN <<paint(Lit("stdin")), Lit("="), paint(Txt(DebugBytes(self.stdin[1]))),
               Lit("\n")>>
        ELSE <<>>)
    \o Display_OutputCause(self.cause)

(***************************************************************************)
(* OutputOkExt::unwrap and unwrap_err.  A call returns [ret, panic]: the   *)
(* value returned, or the message of the panic.                            *)
(***************************************************************************)
Returns(v) == [ret |-> Some(v), panic |-> None]

Panics(msg) == [ret |-> None, panic |-> Some(msg)]

\* as unwrap, but written as .ok().unwrap(): the panic is Result::unwrap's
unwrap_ViaResult(self, w) ==
    LET r == ok(self, w) IN
    IF r.tag = "Ok" THEN Returns(r.output[1])
    ELSE Panics(<<Lit("called Result::unwrap() on an Err value")>>)

unwrap(self, w) ==
    LET r == ok(self, w) IN
    IF r.tag = "Ok" THEN Returns(r.output[1])
    ELSE Panics(Display_OutputError(r.err[1]))

unwrap_err_Output(self) ==
    LET r == ok_Output(self) IN
    IF r.tag = "Ok"
    THEN Panics(<<Lit("Command completed successfully\n"), Lit("stdout="), Tick(3),
                  Txt(DebugBytes(r.output[1].stdout)), Tick(3)>>)
    ELSE Returns(r.err[1])

unwrap_err_Command(self, w) ==
    LET r == ok_Command(self, w) IN
    IF r.tag = "Ok"
    THEN Panics(<<Lit("Completed successfully:\n"), Lit("command="), Tick(1),
                  Txt(DebugCommand(self.argv)),
                  Tick(1), Lit("\n"), Lit("stdout="), Tick(3), Txt(DebugBytes(r.output[1].stdout)),
                  Tick(3)>>)
    ELSE Returns(r.err[1])

unwrap_err_StdInCommand(self, w) ==
    LET r == ok_StdInCommand(self, w) IN
    IF r.tag = "Ok"
    THEN Panics(<<Lit("Completed successfully:\n"), Lit("command="), Tick(1),
                  Txt(DebugCommand(self.argv)),
                  Tick(1), Lit("\n"), Lit("stdin="), Tick(3), Txt(dump_buffer(self.stdin)),
                  Tick(3), Lit("\n"), Lit("stdout="), Tick(3), Txt(dump_buffer(r.output[1].stdout)),
                  Tick(3)>>)
    ELSE Returns(r.err[1])

unwrap_err(self, w) ==
    CASE self.kind = "Output" -> unwrap_err_Output(self)
      [] self.kind = "Command" -> unwrap_err_Command(self, w)
      [] self.kind = "StdInCommand" -> unwrap_err_StdInCommand(self, w)

(***************************************************************************)
(* The Assert value: the output under test and the context pairs, each a   *)
(* name and the text its Display writes.                                   *)
(***************************************************************************)
Assert_new(output) == [output |-> output, context |-> <<>>]

\* as append_context, but the pair is put in front of the list
append_context_Prepend(self, name, context) ==
    [self EXCEPT !.context = <<[name |-> name, context |-> context]>> \o self.context]

append_context(self, name, context) ==
    [self EXCEPT !.context = Append(self.context, [name |-> name, context |-> context])]

get_output(self) == self.output

\* "{}" of errors::DebugBuffer::new(buffer)
DebugBuffer(buffer) == write_buffer(buffer)

\* errors::output_fmt, the one Display of Assert calls
errors_output_fmt(output) ==
    (IF IsSome(output.code)
     THEN <<Lit("code="), Txt(Dec(output.code[1])), Lit("\n")>>
     ELSE <<Lit("code=<interrupted>\n")>>)
    \o <<Lit("stdout="), Tick(3), Txt(write_buffer(output.stdout)), Tick(3), Lit("\n"),
         Lit("stderr="), Tick(3), Txt(write_buffer(output.stderr)), Tick(3), Lit("\n")>>

RECURSIVE Display_context(_)
Display_context(context) ==
    IF context = <<>> THEN <<>>
    ELSE <<Lit(context[1].name), Lit("="), Tick(1), Txt(context[1].context), Tick(1),
           Lit("\n")>>
         \o Display_context(Tail(context))

\* as the Display of Assert, but the context pairs are left out
Display_Assert_NoContext(self) == errors_output_fmt(self.output)

Display_Assert(self) == Display_context(self.context) \o errors_output_fmt(self.output)

\* OutputAssertExt::assert, one definition per implementation; Result::unwrap
\* panics with the error's Debug text
unwrap_io(r) ==
    IF r.tag = "Ok" THEN Returns(r.output[1])
    ELSE Panics(<<Lit("called "), Tick(1), Lit("Result::unwrap()"), Tick(1), Lit(" on an "),
                  Tick(1), Lit("Err"), Tick(1), Lit(" value: "), Lit(r.error[1])>>)

assert_Output(self) == Returns(Assert_new(self.output))

\* as assert on a Command, but a failed launch yields an Assert of an empty outcome
assert_Command_Lenient(self, w) ==
    LET output == unwrap_io(Command_output(w)) IN
    Returns(append_context(
                Assert_new(IF IsSome(output.panic) THEN NoOutcome ELSE output.ret[1]),
                "command", DebugCommand(self.argv)))

assert_Command(self, w) ==
    LET output == unwrap_io(Command_output(w)) IN
    IF IsSome(output.panic) THEN output
    ELSE Returns(append_context(Assert_new(output.ret[1]), "command",
                                DebugCommand(self.argv)))

assert_StdInCommand(self, w) ==
    LET output == unwrap_io(StdInCommand_output(w)) IN
    IF IsSome(output.panic) THEN output
    ELSE Returns(append_context(
                     append_context(Assert_new(output.ret[1]), "command",
                                    DebugCommand(self.argv)),
                     "stdin", DebugBuffer(self.stdin)))

assert(self, w) ==
    CASE self.kind = "Output" -> assert_Output(self)
      [] self.kind = "Command" -> assert_Command(self, w)
      [] self.kind = "StdInCommand" -> assert_StdInCommand(self, w)

(***************************************************************************)
(* The checks of the chain.  Each returns None when the check passes and   *)
(* self is returned, and Some(message) when it panics.                     *)
(***************************************************************************)
\* as Assert::success, but only a reported non-zero code is a failure
Assert_success_CodeOnly(self) ==
    IF IsSome(self.output.code) /\ self.output.code[1] # 0
    THEN Some(<<Lit("Unexpected failure.\n")>> \o Display_Assert(self))
    ELSE None

Assert_success(self) ==
    IF ~success(self.output)
    THEN IF IsNone(self.output.code)
         THEN Some(<<Lit("Unexpected failure.\n"), Lit("code=<interrupted>\n"), Lit("stderr="), Tick(3),
                     Txt(dump_buffer(self.output.stderr)), Tick(3), Lit("\n")>>
                   \o Display_Assert(self))
         ELSE Some(<<Lit("Unexpected failure.\ncode-"), Txt(Dec(self.output.code[1])),
                     Lit("\n"), Lit("stderr="), Tick(3), Txt(dump_buffer(self.output.stderr)),
                     Tick(3), Lit("\n")>>
                   \o Display_Assert(self))
    ELSE None

\* as Assert::failure, but a run without an exit code does not satisfy it
Assert_failure_NeedsCode(self) ==
    IF success(self.output) \/ IsNone(self.output.code)
    THEN Some(<<Lit("Unexpected success\n")>> \o Display_Assert(self))
    ELSE None

Assert_failure(self) ==
    IF success(self.output)
    THEN Some(<<Lit("Unexpected success\n"), Lit("stdout="), Tick(3),
                Txt(dump_buffer(self.output.stdout)), Tick(3), Lit("\n")>>
              \o Display_Assert(self))
    ELSE None

Assert_interrupted(self) ==
    IF IsSome(self.output.code)
    THEN Some(<<Lit("Unexpected completion\n"), Lit("stdout="), Tick(3),
                Txt(dump_buffer(self.output.stdout)), Tick(3), Lit("\n")>>
              \o Display_Assert(self))
    ELSE None

\* the arguments of code(): an i32, a Vec<i32>, a &[i32], or a predicate
\* object, which is the set of the codes it accepts
PredicateObjects == {{}, {42}, {0, 1}, Codes}

\* predicates::constant::always(): the predicate that accepts every integer
Always == [kind |-> "BooleanPredicate", value |-> 1, accepts |-> {}, items |-> <<>>]

\* the collections handed to code()
CodeVecs == {<<>>, <<2, 42>>, <<42, 2>>, <<42, 2, 42>>}

CodeSlices == {<<2, 42>>, <<0>>}

CodeArgs ==
    {[kind |-> "i32", value |-> n, accepts |-> {}, items |-> <<>>] : n \in Codes \cup {2}}
    \cup {[kind |-> "Predicate", value |-> 0, accepts |-> S, items |-> <<>>] :
              S \in PredicateObjects}
    \cup {Always}
    \cup {[kind |-> "Vec", value |-> 0, accepts |-> {}, items |-> v] : v \in CodeVecs}
    \cup {[kind |-> "slice", value |-> 0, accepts |-> {}, items |-> v] : v \in CodeSlices}

\* as into_code, but a collection becomes the equality with its first element
into_code_FirstOnly(pred) ==
    IF pred.kind = "i32"
    THEN [kind |-> "EqPredicate", value |-> pred.value, accepts |-> {}, items |-> <<>>]
    ELSE IF pred.kind \in {"Vec", "slice"}
    THEN IF pred.items = <<>>
         THEN [kind |-> "InPredicate", value |-> 0, accepts |-> {}, items |-> <<>>]
         ELSE [kind |-> "EqPredicate", value |-> pred.items[1], accepts |-> {},
               items |-> <<>>]
    ELSE pred

\* IntoCodePredicate::into_code: an i32 becomes predicates::ord::eq(self), a
\* Vec<i32> or &[i32] becomes predicates::iter::in_iter of its elements, a
\* predicate is returned as it is
into_code(pred) ==
    IF pred.kind = "i32"
    THEN [kind |-> "EqPredicate", value |-> pred.value, accepts |-> {}, items |-> <<>>]
    ELSE IF pred.kind \in {"Vec", "slice"}
    THEN [kind |-> "InPredicate", value |-> 0, accepts |-> {}, items |-> pred.items]
    ELSE pred

\* Predicate<i32>::eval
eval(pred, variable) ==
    IF pred.kind = "EqPredicate" THEN variable = pred.value
    ELSE IF pred.kind = "BooleanPredicate" THEN pred.value = 1
    ELSE IF pred.kind = "InPredicate"
    THEN \E i \in 1..Len(pred.items) : pred.items[i] = variable
    ELSE variable \in pred.accepts

\* as code_impl, but pred is evaluated on a default code when there is none
code_impl_DefaultCode(self, pred) ==
    LET actual_code == IF IsNone(self.output.code) THEN -1 ELSE self.output.code[1] IN
    IF ~eval(pred, actual_code)
    THEN [panic |-> Some(<<Lit("Unexpected return code\n")>> \o Display_Assert(self)),
          evals |-> 1]
    ELSE [panic |-> None, evals |-> 1]

\* code_impl: the panic, if any, and the evaluations of pred it made
code_impl(self, pred) ==
    IF IsNone(self.output.code)
    THEN [panic |-> Some(<<Lit("Command interrupted\n"), Lit("stderr="), Tick(3),
                           Txt(dump_buffer(self.output.stderr)), Tick(3), Lit("\n")>>
                         \o Display_Assert(self)),
          evals |-> 0]
    ELSE IF ~eval(pred, self.output.code[1])
    THEN [panic |-> Some(<<Lit("Unexpected return code\n"), Lit("stdout="), Tick(3),
                           Txt(dump_buffer(self.output.stdout)), Tick(3),
                           Lit("\n"), Lit("stderr="), Tick(3),
                           Txt(dump_buffer(self.output.stderr)), Tick(3), Lit("\n")>>
                         \o Display_Assert(self)),
          evals |-> 1]
    ELSE [panic |-> None, evals |-> 1]

Assert_code(self, pred) == code_impl(self, into_code(pred))

\* the arguments of stdout() and stderr(): a &'static str (its bytes, always
\* UTF-8), a &'static [u8], or a predicate object on [u8], which is the set of
\* the buffers it accepts
StrArgs == {<<>>, <<104>>, <<104, 10>>, <<195, 169>>}

BytesArgs == {<<104>>, <<195>>}

OutputPredicateObjects == {{}, {<<104, 10>>, <<195>>}, StdoutBufs \cup StderrBufs}

OutputArgs ==
    {[kind |-> "str", bytes |-> v, matches |-> {}] : v \in StrArgs}
    \cup {[kind |-> "bytes", bytes |-> v, matches |-> {}] : v \in BytesArgs}
    \cup {[kind |-> "Predicate", bytes |-> <<>>, matches |-> S] :
              S \in OutputPredicateObjects}

\* as into_output, but a predicate is wrapped so that it sees only UTF-8 buffers
into_output_Utf8Only(pred) ==
    IF pred.kind = "str"
    THEN [kind |-> "StrContentOutputPredicate", bytes |-> pred.bytes, matches |-> {}]
    ELSE IF pred.kind = "bytes"
    THEN [kind |-> "BytesContentOutputPredicate", bytes |-> pred.bytes, matches |-> {}]
    ELSE [pred EXCEPT !.matches = {b \in pred.matches : IsUtf8(b)}]

\* IntoOutputPredicate::into_output: a &str becomes StrContentOutputPredicate,
\* a &[u8] becomes BytesContentOutputPredicate, a predicate is returned as it is
into_output(pred) ==
    IF pred.kind = "str"
    THEN [kind |-> "StrContentOutputPredicate", bytes |-> pred.bytes, matches |-> {}]
    ELSE IF pred.kind = "bytes"
    THEN [kind |-> "BytesContentOutputPredicate", bytes |-> pred.bytes, matches |-> {}]
    ELSE pred

\* predicates::str::similar(value): the text has no difference from value
DifferencePredicate_eval(value, text) == text = value

\* as Utf8Predicate's eval, but a buffer that is not UTF-8 is lossily decoded:
\* the first offending byte and what follows it are dropped
Utf8Predicate_eval_Lossy(value, item) ==
    IF IsUtf8(item) THEN DifferencePredicate_eval(value, item)
    ELSE DifferencePredicate_eval(value,
             SubSeq(item, 1, CHOOSE n \in 0..Len(item) :
                                 /\ IsUtf8(SubSeq(item, 1, n))
                                 /\ \A m \in (n + 1)..Len(item) : ~IsUtf8(SubSeq(item, 1, m))))

\* .from_utf8(): str::from_utf8(item).map(|s| p.eval(s)).unwrap_or(false)
Utf8Predicate_eval(value, item) ==
    IF IsUtf8(item) THEN DifferencePredicate_eval(value, item) ELSE FALSE

\* Predicate<[u8]>::eval
eval_bytes(pred, item) ==
    IF pred.kind = "StrContentOutputPredicate" THEN Utf8Predicate_eval(pred.bytes, item)
    ELSE IF pred.kind = "BytesContentOutputPredicate" THEN item = pred.bytes
    ELSE item \in pred.matches

stdout_impl(self, pred) ==
    IF ~eval_bytes(pred, self.output.stdout)
    THEN Some(<<Lit("Unexpected stdout\n")>> \o Display_Assert(self))
    ELSE None

Assert_stdout(self, pred) == stdout_impl(self, into_output(pred))

stderr_impl(self, pred) ==
    IF ~eval_bytes(pred, self.output.stderr)
    THEN Some(<<Lit("Unexpected stderr\n")>> \o Display_Assert(self))
    ELSE None

Assert_stderr(self, pred) == stderr_impl(self, into_output(pred))

(***************************************************************************)
(* The state                                                               *)
(***************************************************************************)
VARIABLES
    recv,       \* the receiver of the entry call: an Output, a Command or a StdInCommand
    world,      \* the operating system's part of the run
    op,         \* the last call made, "none" before the entry call
    result,     \* Option: the OutputResult ok() returned
    out,        \* Option: the Output unwrap() returned
    err,        \* Option: the OutputError the caller holds
    assertion,  \* Option: the value of the assertion chain
    panic,      \* Option: the message of the panic that ended the run
    sets,       \* set_cmd / set_stdin calls made on err
    chain,      \* calls made on the chain
    spawns,     \* children started
    attempts,   \* calls of the receiver's output()
    child,      \* "none", "waited" or "unwaited": what became of the child
    evals,      \* evaluations of the predicate handed to code()
    arg,        \* Option: the argument of the last code(), stdout() or stderr() call
    shown,      \* Option: the text of the last err.to_string()
    data,       \* the buffer handed to format_bytes
    written,    \* Option: the text format_bytes wrote for data
    fault,      \* Option: the panic that ended format_bytes
    chunks,     \* the strings handed to a NewlineRestorer, one per write_str call
    restorer,   \* the NewlineRestorer: the text its inner writer holds, its flag
    calls,      \* write_str calls made on the restorer
    dropped,    \* the restorer was dropped
    parent,     \* Option: the caller of StdInCommand::output(), its position and ends
    proc,       \* Option: the child process
    pipes       \* Option: the bytes in flight in the three pipes of the child

\* the state of a run of a receiver, and the state of a call of format_bytes
runvars == <<recv, world, op, result, out, err, assertion, panic, sets, chain,
             spawns, attempts, child, evals, arg, shown>>

fmtvars == <<data, written, fault>>

\* the state of a NewlineRestorer that is written to in pieces
restvars == <<chunks, restorer, calls, dropped>>

\* the state of one StdInCommand::output() call with its child and pipes
feedvars == <<parent, proc, pipes>>

vars == <<runvars, fmtvars, restvars, feedvars>>

\* the worlds in which the launch fails, and those in which a child starts
FailedLaunches ==
    {[launch |-> e, write |-> "ok", outcome |-> NoOutcome] : e \in LaunchErrors}

StartedRuns ==
    {[launch |-> "ok", write |-> wr, outcome |-> o] :
        wr \in {"ok"} \cup WriteErrors, o \in Outputs}

Receivers(w) ==
    {[kind |-> "Output", argv |-> <<>>, stdin |-> <<>>, output |-> w.outcome] :
        x \in {y \in {1} : w.launch = "ok" /\ w.write = "ok"}}
    \cup {[kind |-> "Command", argv |-> a, stdin |-> <<>>, output |-> NoOutcome] :
        a \in {y \in Argvs : w.write = "ok"}}
    \cup {[kind |-> "StdInCommand", argv |-> a, stdin |-> b, output |-> NoOutcome] :
        a \in {<<<<99, 97, 116>>>>}, b \in StdinBufs}

Init ==
    /\ \/ world \in FailedLaunches
       \/ world \in StartedRuns
    /\ recv \in Receivers(world)
    /\ op = "none"
    /\ result = None
    /\ out = None
    /\ err = None
    /\ assertion = None
    /\ panic = None
    /\ sets = 0
    /\ chain = 0
    /\ spawns = 0
    /\ attempts = 0
    /\ child = "none"
    /\ evals = 0
    /\ arg = None
    /\ shown = None
    /\ data = <<>>
    /\ written = None
    /\ fault = None
    /\ chunks = <<>>
    /\ restorer = NewlineRestorer_new
    /\ calls = 0
    /\ dropped = FALSE
    /\ parent = None
    /\ proc = None
    /\ pipes = None

\* the effect of the receiver's output() on the operating system
Run ==
    /\ spawns' = spawns + Spawns(recv, world)
    /\ attempts' = attempts + Attempts(recv)
    /\ child' = ChildAfter(recv, world)

(***************************************************************************)
(* The entry calls of OutputOkExt                                          *)
(***************************************************************************)
CallOk ==
    /\ UNCHANGED <<fmtvars, restvars, feedvars>>
    /\ op = "none"
    /\ op' = "ok"
    /\ result' = Some(ok(recv, world))
    /\ err' = ok(recv, world).err
    /\ Run
    /\ UNCHANGED <<recv, world, out, assertion, panic, sets, chain, evals, arg, shown>>

CallUnwrap ==
    /\ UNCHANGED <<fmtvars, restvars, feedvars>>
    /\ op = "none"
    /\ op' = "unwrap"
    /\ out' = unwrap(recv, world).ret
    /\ panic' = unwrap(recv, world).panic
    /\ Run
    /\ UNCHANGED <<recv, world, result, err, assertion, sets, chain, evals, arg, shown>>

CallUnwrapErr ==
    /\ UNCHANGED <<fmtvars, restvars, feedvars>>
    /\ op = "none"
    /\ op' = "unwrap_err"
    /\ err' = unwrap_err(recv, world).ret
    /\ panic' = unwrap_err(recv, world).panic
    /\ Run
    /\ UNCHANGED <<recv, world, result, out, assertion, sets, chain, evals, arg, shown>>

(***************************************************************************)
(* The builder calls on the OutputError the caller holds                   *)
(***************************************************************************)
SetCmd ==
    /\ UNCHANGED <<fmtvars, restvars, feedvars>>
    /\ IsSome(err)
    /\ sets < MaxSets
    /\ \E a \in Argvs :
        /\ err' = Some(set_cmd(err[1], DebugCommand(a)))
        /\ op' = "set_cmd"
    /\ sets' = sets + 1
    /\ UNCHANGED <<recv, world, result, out, assertion, panic, chain, spawns, attempts,
                   child, evals, arg, shown>>

SetStdin ==
    /\ UNCHANGED <<fmtvars, restvars, feedvars>>
    /\ IsSome(err)
    /\ sets < MaxSets
    /\ \E b \in StdinBufs :
        /\ err' = Some(set_stdin(err[1], b))
        /\ op' = "set_stdin"
    /\ sets' = sets + 1
    /\ UNCHANGED <<recv, world, result, out, assertion, panic, chain, spawns, attempts,
                   child, evals, arg, shown>>

\* err.to_string(): the Display of the OutputError the caller holds
Show ==
    /\ UNCHANGED <<fmtvars, restvars, feedvars>>
    /\ IsSome(err)
    /\ op # "to_string"
    /\ op' = "to_string"
    /\ shown' = Some(Display_OutputError(err[1]))
    /\ UNCHANGED <<recv, world, result, out, err, assertion, panic, sets, chain,
                   spawns, attempts, child, evals, arg>>

(***************************************************************************)
(* The entry call of OutputAssertExt and the calls of the chain.  A check  *)
(* that panics ends the chain: the Assert value is gone with the panic.    *)
(***************************************************************************)
CallAssert ==
    /\ UNCHANGED <<fmtvars, restvars, feedvars>>
    /\ op = "none"
    /\ op' = "assert"
    /\ assertion' = assert(recv, world).ret
    /\ panic' = assert(recv, world).panic
    /\ Run
    /\ UNCHANGED <<recv, world, result, out, err, sets, chain, evals, arg, shown>>

\* as Checked, but the Assert survives the panic and the chain goes on
Checked_KeepsGoing(name, p) ==
    /\ op' = name
    /\ panic' = p
    /\ assertion' = assertion
    /\ chain' = chain + 1
    /\ UNCHANGED <<recv, world, result, out, err, sets, spawns, attempts, child, shown>>

\* as Checked, but a check that passes takes the exit code out of the outcome
Checked_Consumes(name, p) ==
    /\ op' = name
    /\ panic' = p
    /\ assertion' = IF IsSome(p) THEN None
                    ELSE Some([assertion[1] EXCEPT !.output.code = None])
    /\ chain' = chain + 1
    /\ UNCHANGED <<recv, world, result, out, err, sets, spawns, attempts, child, shown>>

\* the frame of a call on the chain whose check panics with p, or passes (None)
Checked(name, p) ==
    /\ op' = name
    /\ panic' = p
    /\ assertion' = IF IsSome(p) THEN None ELSE assertion
    /\ chain' = chain + 1
    /\ UNCHANGED <<recv, world, result, out, err, sets, spawns, attempts, child, shown>>

CanChain == IsSome(assertion) /\ chain < MaxChain

AppendContext ==
    /\ UNCHANGED <<fmtvars, restvars, feedvars>>
    /\ CanChain
    /\ \E name \in {"main"} :
        assertion' = Some(append_context(assertion[1], name, <<104>>))
    /\ op' = "append_context"
    /\ chain' = chain + 1
    /\ UNCHANGED <<recv, world, result, out, err, panic, sets, spawns, attempts, child,
                   evals, arg, shown>>

Success ==
    /\ UNCHANGED <<fmtvars, restvars, feedvars>>
    /\ CanChain
    /\ Checked("success", Assert_success(assertion[1]))
    /\ UNCHANGED <<evals, arg, shown>>

Failure ==
    /\ UNCHANGED <<fmtvars, restvars, feedvars>>
    /\ CanChain
    /\ Checked("failure", Assert_failure(assertion[1]))
    /\ UNCHANGED <<evals, arg, shown>>

Interrupted ==
    /\ UNCHANGED <<fmtvars, restvars, feedvars>>
    /\ CanChain
    /\ Checked("interrupted", Assert_interrupted(assertion[1]))
    /\ UNCHANGED <<evals, arg, shown>>

Code ==
    /\ UNCHANGED <<fmtvars, restvars, feedvars>>
    /\ CanChain
    /\ \E pred \in CodeArgs :
        /\ Checked("code", Assert_code(assertion[1], pred).panic)
        /\ evals' = evals + Assert_code(assertion[1], pred).evals
        /\ arg' = Some(pred)

Stdout ==
    /\ UNCHANGED <<fmtvars, restvars, feedvars>>
    /\ CanChain
    /\ \E pred \in OutputArgs :
        /\ Checked("stdout", Assert_stdout(assertion[1], pred))
        /\ arg' = Some(pred)
    /\ UNCHANGED evals

Stderr ==
    /\ UNCHANGED <<fmtvars, restvars, feedvars>>
    /\ CanChain
    /\ \E pred \in OutputArgs :
        /\ Checked("stderr", Assert_stderr(assertion[1], pred))
        /\ arg' = Some(pred)
    /\ UNCHANGED evals

Next ==
    \/ CallOk
    \/ CallUnwrap
    \/ CallUnwrapErr
    \/ SetCmd
    \/ SetStdin
    \/ Show
    \/ CallAssert
    \/ AppendContext
    \/ Success
    \/ Failure
    \/ Interrupted
    \/ Code
    \/ Stdout
    \/ Stderr

Spec == Init /\ [][Next]_vars

(***************************************************************************)
(* format_bytes as a function of its buffer: the buffers it is called on   *)
(* and the call.                                                           *)
(***************************************************************************)
\* u written n times
Repeat(u, n) == [i \in 1..(n * Len(u)) |-> u[((i - 1) % Len(u)) + 1]]

\* the lines "1", "2", ..., "n", each ended by a newline
NumberedLines(n) == Concat([i \in 1..n |-> Dec(i) \o <<10>>])

\* short buffers: every buffer of up to MaxFmtLen bytes out of a newline, a
\* backslash, h, n and a byte that is not UTF-8
SmallBufs == SeqsUpTo({10, 92, 104, 110, 195}, MaxFmtLen)

\* buffers around the line threshold: a line written over and over, with and
\* without an unfinished last line; the unit backslash n holds no newline
LineUnits == {<<10>>, <<104, 10>>, <<195, 10>>, <<92, 110>>, <<104, 92, 10>>}

LineCounts == (LINES_MIN_OVERFLOW - 2)..(LINES_MIN_OVERFLOW + MaxExtraLines)

LineBufs ==
    {Repeat(u, n) \o t : u \in LineUnits, n \in LineCounts, t \in {<<>>, <<104>>}}
    \cup {NumberedLines(n) : n \in LineCounts}

\* buffers around the byte threshold: h only; a newline every 300 bytes; the
\* two bytes of e-acute after one h, so that a cut at an even offset splits a
\* character; a backslash every 7 bytes; lines of 205 bytes, 40 or more of
\* them from 8200 bytes on
Pattern(name, i) ==
    CASE name = "h" -> 104
      [] name = "lines" -> IF i % 300 = 0 THEN 10 ELSE 104
      [] name = "utf8" -> IF i = 1 THEN 104 ELSE IF i % 2 = 0 THEN 195 ELSE 169
      [] name = "backslash" -> IF i % 7 = 0 THEN 92 ELSE 104
      [] name = "manylines" -> IF i % 205 = 0 THEN 10 ELSE 104

ByteCounts == (BYTES_MIN_OVERFLOW - 1)..(BYTES_MIN_OVERFLOW + MaxExtraBytes)

BigBufs ==
    {[i \in 1..n |-> Pattern(name, i)] :
        name \in {"h", "lines", "utf8", "backslash", "manylines"},
        n \in ByteCounts \cup {BYTES_MIN_OVERFLOW + 8}}

FormatInit ==
    /\ data \in SmallBufs \cup LineBufs \cup BigBufs
    /\ written = None
    /\ world = [launch |-> "ok", write |-> "ok", outcome |-> NoOutcome]
    /\ recv = [kind |-> "Output", argv |-> <<>>, stdin |-> <<>>, output |-> NoOutcome]
    /\ op = "none"
    /\ result = None
    /\ out = None
    /\ err = None
    /\ assertion = None
    /\ panic = None
    /\ sets = 0
    /\ chain = 0
    /\ spawns = 0
    /\ attempts = 0
    /\ child = "none"
    /\ evals = 0
    /\ arg = None
    /\ shown = None
    /\ fault = None
    /\ chunks = <<>>
    /\ restorer = NewlineRestorer_new
    /\ calls = 0
    /\ dropped = FALSE
    /\ parent = None
    /\ proc = None
    /\ pipes = None

\* format_bytes(data, f) on an empty f: the text written, or the panic
Format ==
    /\ written = None
    /\ fault = None
    /\ fault' = format_bytes_fault(data)
    /\ written' = IF IsSome(fault') THEN None ELSE Some(format_bytes(data))
    /\ UNCHANGED <<data, runvars, restvars, feedvars>>

FormatNext == Format

FormatSpec == FormatInit /\ [][FormatNext]_vars

(***************************************************************************)
(* A NewlineRestorer written to in pieces: new, one write_str call per     *)
(* piece, drop.                                                            *)
(***************************************************************************)
\* the strings written: up to MaxTextLen characters out of a newline, a
\* backslash, h and n
Texts == SeqsUpTo({10, 92, 104, 110}, MaxTextLen)

\* s cut into consecutive pieces after each position of cuts
Split(s, cuts) ==
    LET IsEnd(i) == i \in cuts \/ i = Len(s)
        ends == SelectSeq([i \in 1..Len(s) |-> i], IsEnd)
    IN  [k \in 1..Len(ends) |->
            SubSeq(s, IF k = 1 THEN 1 ELSE ends[k - 1] + 1, ends[k])]

RestoreInit ==
    /\ chunks \in {Split(s, cuts) : s \in Texts, cuts \in SUBSET (1..(MaxTextLen - 1))}
    /\ restorer = NewlineRestorer_new
    /\ calls = 0
    /\ dropped = FALSE
    /\ data = <<>>
    /\ written = None
    /\ fault = None
    /\ parent = None
    /\ proc = None
    /\ pipes = None
    /\ world = [launch |-> "ok", write |-> "ok", outcome |-> NoOutcome]
    /\ recv = [kind |-> "Output", argv |-> <<>>, stdin |-> <<>>, output |-> NoOutcome]
    /\ op = "none"
    /\ result = None
    /\ out = None
    /\ err = None
    /\ assertion = None
    /\ panic = None
    /\ sets = 0
    /\ chain = 0
    /\ spawns = 0
    /\ attempts = 0
    /\ child = "none"
    /\ evals = 0
    /\ arg = None
    /\ shown = None

\* restorer.write_str(chunk) with the next piece
WriteStr ==
    /\ ~dropped
    /\ calls < Len(chunks)
    /\ restorer' = write_str(restorer, chunks[calls + 1])
    /\ calls' = calls + 1
    /\ UNCHANGED <<chunks, dropped, runvars, fmtvars, feedvars>>

\* the restorer goes out of scope after the last piece: Drop writes the
\* pending backslash to the inner writer
Drop ==
    /\ ~dropped
    /\ calls = Len(chunks)
    /\ restorer' = [restorer EXCEPT !.inner = drop(restorer)]
    /\ dropped' = TRUE
    /\ UNCHANGED <<chunks, calls, runvars, fmtvars, feedvars>>

RestoreNext ==
    \/ WriteStr
    \/ Drop

RestoreSpec == RestoreInit /\ [][RestoreNext]_vars

(***************************************************************************)
(* One call of StdInCommand::output() with the child it starts and the     *)
(* three pipes between them.  The parent is the code of spawn() and of     *)
(* Child::wait_with_output(); the child runs a program of reads of its     *)
(* stdin and writes to its stdout and stderr.  A pipe holds up to cap      *)
(* bytes: a write to a full pipe and a read of an empty pipe whose write   *)
(* end is open block, and a write to a pipe whose read end is closed       *)
(* fails.  The model ends when output() returns.                           *)
(***************************************************************************)
\* the stdin buffers fed: the first bytes of "1234..."
FeedBufs == {[i \in 1..k |-> 48 + i] : k \in 0..MaxFeedLen}

\* the programs of the child, one instruction per step: "out" and "err" write
\* one byte, "read" reads one byte (or sees the end of input), "read_to_end"
\* reads until the end of input, "close" closes stdin; the child exits at the
\* end of its program
Programs ==
    {<<>>, <<"read">>, <<"read_to_end">>}
    \cup {[i \in 1..k |-> "out"] \o <<"read_to_end">> : k \in 1..MaxChildOut}
    \cup {[i \in 1..k |-> "err"] \o <<"read_to_end">> : k \in 1..MaxChildOut}
    \cup {<<"read_to_end">> \o [i \in 1..k |-> "out"] : k \in 1..MaxChildOut}
    \cup {<<"close">> \o [i \in 1..k |-> "out"] : k \in 1..MaxChildOut}

FeedInit ==
    /\ \E b \in FeedBufs :
        parent = [pc |-> "spawn", stdin |-> b, written |-> 0, handle |-> "none",
                  stdout |-> 0, stderr |-> 0, ret |-> None]
    /\ \E program \in Programs :
        proc = [state |-> "none", program |-> program, at |-> 1, received |-> <<>>,
                eof |-> FALSE, stdin_open |-> FALSE]
    /\ \E cap \in 1..MaxPipeCap :
        pipes = [cap |-> cap, stdin |-> <<>>, stdout |-> 0, stderr |-> 0]
    /\ data = <<>>
    /\ written = None
    /\ fault = None
    /\ chunks = <<>>
    /\ restorer = NewlineRestorer_new
    /\ calls = 0
    /\ dropped = FALSE
    /\ world = [launch |-> "ok", write |-> "ok", outcome |-> NoOutcome]
    /\ recv = [kind |-> "Output", argv |-> <<>>, stdin |-> <<>>, output |-> NoOutcome]
    /\ op = "none"
    /\ result = None
    /\ out = None
    /\ err = None
    /\ assertion = None
    /\ panic = None
    /\ sets = 0
    /\ chain = 0
    /\ spawns = 0
    /\ attempts = 0
    /\ child = "none"
    /\ evals = 0
    /\ arg = None
    /\ shown = None

\* self.cmd.spawn()?: the launch fails and output() returns the error, or the
\* child starts with its three streams piped
Spawn ==
    /\ parent.pc = "spawn"
    /\ \/ /\ parent' = [parent EXCEPT !.pc = "returned", !.ret = Some("NotFound")]
          /\ UNCHANGED proc
       \/ /\ parent' = [parent EXCEPT !.pc = "write_all", !.handle = "open"]
          /\ proc' = [proc EXCEPT !.state = "running", !.stdin_open = TRUE]
    /\ UNCHANGED <<pipes, runvars, fmtvars, restvars>>

\* one write() of write_all(&self.stdin): the next bytes of the buffer, as
\* many as the call takes, are put into the pipe; the call blocks while the
\* pipe is full
Write ==
    /\ parent.pc = "write_all"
    /\ parent.written < Len(parent.stdin)
    /\ proc.stdin_open
    /\ \E k \in 1..(pipes.cap - Len(pipes.stdin)) :
        /\ parent.written + k <= Len(parent.stdin)
        /\ pipes' = [pipes EXCEPT !.stdin = @ \o SubSeq(parent.stdin, parent.written + 1,
                                                          parent.written + k)]
        /\ parent' = [parent EXCEPT !.written = @ + k]
    /\ UNCHANGED <<proc, runvars, fmtvars, restvars>>

\* write_all(&self.stdin)?: the child has closed its stdin, the write fails
\* and spawn() returns the error; the Child value is dropped, which closes
\* the parent's ends of the pipes and does not wait for the child
WriteFails ==
    /\ parent.pc = "write_all"
    /\ parent.written < Len(parent.stdin)
    /\ ~proc.stdin_open
    /\ parent' = [parent EXCEPT !.pc = "returned", !.handle = "closed",
                                !.ret = Some("BrokenPipe")]
    /\ UNCHANGED <<proc, pipes, runvars, fmtvars, restvars>>

\* as WriteDone, but spawn() returns after the first write() call
WriteDone_Early ==
    /\ parent.pc = "write_all"
    /\ parent.written > 0 \/ Len(parent.stdin) = 0
    /\ parent' = [parent EXCEPT !.pc = "read2", !.handle = "closed"]
    /\ UNCHANGED <<proc, pipes, runvars, fmtvars, restvars>>

\* write_all returned Ok: spawn() returns the child and wait_with_output()
\* begins, which first drops the child's stdin handle
WriteDone ==
    /\ parent.pc = "write_all"
    /\ parent.written = Len(parent.stdin)
    /\ parent' = [parent EXCEPT !.pc = "read2", !.handle = "closed"]
    /\ UNCHANGED <<proc, pipes, runvars, fmtvars, restvars>>

\* wait_with_output() reads what is in the stdout or in the stderr pipe
Read2 ==
    /\ parent.pc = "read2"
    /\ \/ /\ pipes.stdout > 0
          /\ parent' = [parent EXCEPT !.stdout = @ + pipes.stdout]
          /\ pipes' = [pipes EXCEPT !.stdout = 0]
       \/ /\ pipes.stderr > 0
          /\ parent' = [parent EXCEPT !.stderr = @ + pipes.stderr]
          /\ pipes' = [pipes EXCEPT !.stderr = 0]
    /\ UNCHANGED <<proc, runvars, fmtvars, restvars>>

\* both pipes are at their end (the child has exited and they are empty):
\* wait_with_output() waits for the child and output() returns its Output
Wait ==
    /\ parent.pc = "read2"
    /\ proc.state = "exited"
    /\ pipes.stdout = 0
    /\ pipes.stderr = 0
    /\ proc' = [proc EXCEPT !.state = "reaped"]
    /\ parent' = [parent EXCEPT !.pc = "returned", !.ret = Some("Ok")]
    /\ UNCHANGED <<pipes, runvars, fmtvars, restvars>>

\* the child is running and output() has not returned
ChildRuns == proc.state = "running" /\ parent.pc # "returned"

\* the child reads its stdin: a byte of the pipe, or the end of input once
\* the pipe is empty and the parent has closed its end
ChildRead ==
    /\ ChildRuns
    /\ proc.at <= Len(proc.program)
    /\ proc.program[proc.at] \in {"read", "read_to_end"}
    /\ proc.stdin_open
    /\ \/ /\ pipes.stdin # <<>>
          /\ proc' = [proc EXCEPT !.received = Append(@, Head(pipes.stdin)),
                                  !.at = IF proc.program[proc.at] = "read" THEN @ + 1 ELSE @]
          /\ pipes' = [pipes EXCEPT !.stdin = Tail(@)]
       \/ /\ pipes.stdin = <<>>
          /\ parent.handle = "closed"
          /\ proc' = [proc EXCEPT !.eof = TRUE, !.at = @ + 1]
          /\ UNCHANGED pipes
    /\ UNCHANGED <<parent, runvars, fmtvars, restvars>>

\* the child writes a byte to its stdout or stderr; it blocks while the pipe
\* is full
ChildWrite ==
    /\ ChildRuns
    /\ proc.at <= Len(proc.program)
    /\ \/ /\ proc.program[proc.at] = "out"
          /\ pipes.stdout < pipes.cap
          /\ pipes' = [pipes EXCEPT !.stdout = @ + 1]
       \/ /\ proc.program[proc.at] = "err"
          /\ pipes.stderr < pipes.cap
          /\ pipes' = [pipes EXCEPT !.stderr = @ + 1]
    /\ proc' = [proc EXCEPT !.at = @ + 1]
    /\ UNCHANGED <<parent, runvars, fmtvars, restvars>>

\* the child closes its stdin without reading what is left
ChildClose ==
    /\ ChildRuns
    /\ proc.at <= Len(proc.program)
    /\ proc.program[proc.at] = "close"
    /\ proc' = [proc EXCEPT !.stdin_open = FALSE, !.at = @ + 1]
    /\ UNCHANGED <<parent, pipes, runvars, fmtvars, restvars>>

\* the child exits at the end of its program, which closes its streams
ChildExit ==
    /\ ChildRuns
    /\ proc.at > Len(proc.program)
    /\ proc' = [proc EXCEPT !.state = "exited", !.stdin_open = FALSE]
    /\ UNCHANGED <<parent, pipes, runvars, fmtvars, restvars>>

FeedNext ==
    \/ Spawn
    \/ Write
    \/ WriteFails
    \/ WriteDone
    \/ Read2
    \/ Wait
    \/ ChildRead
    \/ ChildWrite
    \/ ChildClose
    \/ ChildExit

FeedSpec == FeedInit /\ [][FeedNext]_vars

\* the parent and the child are scheduled: a step that can be taken is
\* eventually taken
FeedLive == FeedSpec /\ WF_vars(FeedNext)

(***************************************************************************)
(* Properties                                                              *)
(***************************************************************************)
\* the Output the run produced: the receiver itself, or what the child reported
Outcome == IF recv.kind = "Output" THEN recv.output ELSE world.outcome

\* C1: ok() on a completed Output o returns Ok(o) exactly when o's exit status
\* is success (exit code 0); otherwise it returns Err(e) whose cause is
\* Expected, e.as_output() is o itself, and no command or stdin is attached.
C1_OkOnOutput ==
    (IsSome(result) /\ recv.kind = "Output") =>
        LET o == recv.output
            r == result[1]
        IN  IF o.code = Some(0)
            THEN r.tag = "Ok" /\ r.output = Some(o) /\ r.err = None
            ELSE /\ r.tag = "Err"
                 /\ r.output = None
                 /\ r.err[1].cause.tag = "Expected"
                 /\ as_output(r.err[1]) = Some(o)
                 /\ r.err[1].cmd = None
                 /\ r.err[1].stdin = None

\* ok() returned Err for an Output whose child was interrupted
C1_Witness ==
    /\ op = "ok"
    /\ recv.kind = "Output"
    /\ recv.output.code = None
    /\ recv.output.stdout = <<104, 10>>
    /\ result[1].tag = "Err"

\* C2: ok() on a process specification whose launch fails returns Err(e) with
\* the Unexpected cause wrapping the launch error, e.as_output() is None, and
\* there is no panic; unwrap() on the same specification is what panics.
C2_LaunchFailure ==
    (recv.kind # "Output" /\ world.launch # "ok") =>
        /\ IsSome(result) =>
            /\ result[1].tag = "Err"
            /\ result[1].err[1].cause.tag = "Unexpected"
            /\ result[1].err[1].cause.error = Some(world.launch)
            /\ as_output(result[1].err[1]) = None
            /\ panic = None
        /\ op = "unwrap" => (IsSome(panic) /\ out = None)

\* ok() returned after the launch of a Command failed
C2_Witness ==
    /\ op = "ok"
    /\ recv.kind = "Command"
    /\ world.launch = "NotFound"
    /\ result[1].tag = "Err"
    /\ panic = None

\* C3 as stated: every Err of ok() on a process specification carries the
\* rendered command line, and the stdin buffer when the specification has one.
C3_EveryErrHasContext ==
    (IsSome(result) /\ recv.kind # "Output" /\ result[1].tag = "Err") =>
        /\ result[1].err[1].cmd = Some(DebugCommand(recv.argv))
        /\ recv.kind = "StdInCommand" => result[1].err[1].stdin = Some(recv.stdin)

\* C3 amended: an Err of ok() on a process specification whose cause is
\* Expected carries the rendered command line, the stdin buffer exactly when
\* the specification has one; an Err whose cause is Unexpected carries
\* neither.
C3_ExpectedErrHasContext ==
    (IsSome(result) /\ recv.kind # "Output" /\ result[1].tag = "Err") =>
        LET e == result[1].err[1] IN
        IF e.cause.tag = "Expected"
        THEN /\ e.cmd = Some(DebugCommand(recv.argv))
             /\ e.stdin = IF recv.kind = "StdInCommand" THEN Some(recv.stdin) ELSE None
        ELSE e.cmd = None /\ e.stdin = None

\* ok() returned the Err of a StdInCommand whose child exited with code 42
C3_Witness ==
    /\ op = "ok"
    /\ recv.kind = "StdInCommand"
    /\ recv.stdin = <<52, 50>>
    /\ result[1].tag = "Err"
    /\ result[1].err[1].cause.tag = "Expected"
    /\ world.outcome.code = Some(42)

\* C4 as stated: whenever the child was started, ok() returns Ok(outcome) or an
\* Err whose cause is Expected and carries the completed outcome.
C4_StartedNeverUnexpected ==
    (IsSome(result) /\ spawns > 0) =>
        \/ result[1].tag = "Ok" /\ result[1].output = Some(world.outcome)
        \/ /\ result[1].tag = "Err"
           /\ result[1].err[1].cause.tag = "Expected"
           /\ as_output(result[1].err[1]) = Some(world.outcome)

\* C5: an OutputError has exactly one cause variant set, as_output() yields a
\* value exactly for the Expected variant, and set_cmd / set_stdin leave the
\* cause unchanged, set_cmd leaves stdin unchanged, set_stdin leaves cmd
\* unchanged.
C5_CauseInvariant ==
    IsSome(err) =>
        LET e == err[1] IN
        /\ e.cause.tag \in {"Expected", "Unexpected"}
        /\ (e.cause.tag = "Expected") <=> (IsSome(e.cause.output) /\ IsNone(e.cause.error))
        /\ (e.cause.tag = "Unexpected") <=> (IsNone(e.cause.output) /\ IsSome(e.cause.error))
        /\ IsSome(as_output(e)) <=> (e.cause.tag = "Expected")
        /\ IsSome(as_output(e)) => as_output(e) = e.cause.output

C5_SettersFrame ==
    (IsSome(err) /\ IsSome(err')) =>
        /\ err'[1].cause = err[1].cause
        /\ op' = "set_cmd" => (err'[1].stdin = err[1].stdin /\ IsSome(err'[1].cmd))
        /\ op' = "set_stdin" => (err'[1].cmd = err[1].cmd /\ IsSome(err'[1].stdin))
        /\ op' \notin {"set_cmd", "set_stdin"} => err' = err

\* C5: every OutputError has exactly one cause, and set_cmd / set_stdin change
\* nothing but the field they set.
C5_OutputErrorInvariant == [](C5_CauseInvariant) /\ [][C5_SettersFrame]_vars

\* set_cmd was called on an Unexpected error that already carried a stdin buffer
C5_Witness ==
    /\ op = "set_cmd"
    /\ sets = 2
    /\ IsSome(err)
    /\ err[1].cause.tag = "Unexpected"
    /\ err[1].stdin = Some(<<52, 50>>)
    /\ IsSome(err[1].cmd)

\* the keys of a Display text, in the order written
IsKey(p) == p.kind = "lit" /\ p.lit \in {"command", "stdin", "code", "stdout", "stderr"}

KeysOf(msg) == [i \in 1..Len(SelectSeq(msg, IsKey)) |-> SelectSeq(msg, IsKey)[i].lit]

\* the text has the line key=value
HasLine(msg, key, value) ==
    \E i \in 1..(Len(msg) - 3) :
        /\ msg[i] = Lit(key)
        /\ msg[i + 1] = Lit("=")
        /\ msg[i + 2] = value
        /\ msg[i + 3] = Lit("\n")

\* C6: the Display of an OutputError writes the command line (only if set),
\* then the stdin buffer (only if set), then the cause: for Expected the code
\* line (the code, or <interrupted>), stdout, stderr; for Unexpected the
\* error's message and no code, stdout or stderr line.
C6_DisplayOrder ==
    (op = "to_string") =>
        LET e == err[1]
            msg == shown[1]
            context == (IF IsSome(e.cmd) THEN <<"command">> ELSE <<>>)
                       \o (IF IsSome(e.stdin) THEN <<"stdin">> ELSE <<>>)
        IN  /\ IsSome(e.cmd) => HasLine(msg, "command", Txt(e.cmd[1]))
            /\ IsSome(e.stdin) => HasLine(msg, "stdin", Txt(format_bytes(e.stdin[1])))
            /\ IF e.cause.tag = "Expected"
               THEN LET o == e.cause.output[1] IN
                    /\ KeysOf(msg) = context \o <<"code", "stdout", "stderr">>
                    /\ HasLine(msg, "code", IF IsSome(o.code) THEN Txt(Dec(o.code[1]))
                                            ELSE Lit("<interrupted>"))
                    /\ HasLine(msg, "stdout", Txt(format_bytes(o.stdout)))
                    /\ HasLine(msg, "stderr", Txt(format_bytes(o.stderr)))
                    /\ Len(msg) = 4 * Len(context) + 12
               ELSE /\ KeysOf(msg) = context
                    /\ msg[Len(msg)] = Lit(e.cause.error[1])
                    /\ Len(msg) = 4 * Len(context) + 1

\* an Expected error of an interrupted run, with command and stdin set, was shown
C6_Witness ==
    /\ op = "to_string"
    /\ IsSome(err[1].cmd)
    /\ err[1].stdin = Some(<<52, 50>>)
    /\ err[1].cause.tag = "Expected"
    /\ err[1].cause.output[1].code = None
    /\ err[1].cause.output[1].stdout = <<104, 10>>

\* the text shows label followed by the value between n backticks
Shows(msg, label, n, text) ==
    \E i \in 1..(Len(msg) - 3) :
        /\ msg[i] = Lit(label)
        /\ msg[i + 1] = Tick(n)
        /\ msg[i + 2] = Txt(text)
        /\ msg[i + 3] = Tick(n)

\* the attempt did not end in a successful outcome
RunFailed ==
    \/ world.launch # "ok"
    \/ recv.kind = "StdInCommand" /\ world.write # "ok"
    \/ Outcome.code # Some(0)

\* C7: of unwrap and unwrap_err exactly one panics: unwrap returns the outcome
\* when ok() is Ok and otherwise panics with the Display text of the
\* OutputError; unwrap_err returns the OutputError when ok() is Err and
\* otherwise panics with a message that shows the command (of a
\* specification), the stdin buffer (when the specification has one) and the
\* stdout of the successful run.
C7_UnwrapDuality ==
    /\ op = "unwrap" =>
        IF RunFailed
        THEN /\ out = None
             /\ ok(recv, world).tag = "Err"
             /\ panic = Some(Display_OutputError(ok(recv, world).err[1]))
        ELSE out = Some(Outcome) /\ panic = None
    /\ op = "unwrap_err" =>
        IF RunFailed
        THEN /\ panic = None
             /\ IsSome(err)
             /\ Err(err[1]) = ok(recv, world)
        ELSE /\ err = None
             /\ IsSome(panic)
             /\ recv.kind # "Output" => Shows(panic[1], "command=", 1, DebugCommand(recv.argv))
             /\ recv.kind = "StdInCommand" =>
                    /\ Shows(panic[1], "stdin=", 3, dump_buffer(recv.stdin))
                    /\ Shows(panic[1], "stdout=", 3, dump_buffer(Outcome.stdout))
             /\ recv.kind # "StdInCommand" =>
                    Shows(panic[1], "stdout=", 3, format_bytes(Outcome.stdout))
    /\ op \in {"unwrap", "unwrap_err"} =>
        (IsSome(unwrap(recv, world).panic) # IsSome(unwrap_err(recv, world).panic))

\* unwrap_err panicked on the successful run of a StdInCommand
C7_Witness ==
    /\ op = "unwrap_err"
    /\ recv.kind = "StdInCommand"
    /\ recv.stdin = <<52, 50>>
    /\ Outcome.stdout = <<104, 10>>
    /\ IsSome(panic)

\* a buffer as a panic text carries it: the text itself when it is UTF-8, the
\* list of its bytes otherwise
Content(b) == IF IsUtf8(b) THEN b ELSE DebugSlice(b)

\* C8: success() returns the Assert without panicking exactly when the exit
\* code is 0; for every other code and for a run without a code it panics,
\* and the panic text contains the captured stdout and stderr.
C8_Success ==
    (op = "success") =>
        /\ (panic = None) <=> (Outcome.code = Some(0))
        /\ panic = None => (IsSome(assertion) /\ get_output(assertion[1]) = Outcome)
        /\ IsSome(panic) =>
            /\ assertion = None
            /\ Shows(panic[1], "stdout=", 3, Content(Outcome.stdout))
            /\ Shows(panic[1], "stderr=", 3, Content(Outcome.stderr))

\* success() panicked on an interrupted run
C8_Witness ==
    /\ op = "success"
    /\ IsSome(panic)
    /\ Outcome.code = None
    /\ Outcome.stdout = <<104, 10>>
    /\ Outcome.stderr = <<195>>

\* C9: failure() passes for every outcome that is not a success, a run
\* without an exit code included; interrupted() passes exactly when there is
\* no exit code; so interrupted() passing implies that failure() passes and
\* success() panics, and exactly one of success() and failure() passes.
C9_FailureInterrupted ==
    /\ op = "failure" => ((panic = None) <=> (Outcome.code # Some(0)))
    /\ op = "interrupted" => ((panic = None) <=> (Outcome.code = None))
    /\ IsSome(assertion) =>
        LET a == assertion[1] IN
        /\ IsNone(Assert_interrupted(a)) =>
              (IsNone(Assert_failure(a)) /\ IsSome(Assert_success(a)))
        /\ IsNone(Assert_success(a)) # IsNone(Assert_failure(a))

\* failure() passed on an interrupted run, after interrupted() or another call
C9_Witness ==
    /\ op = "failure"
    /\ chain = 2
    /\ panic = None
    /\ Outcome.code = None

\* C10: code(N) passes exactly when there is an exit code and it equals N; a
\* run without an exit code makes code(p) panic with "Command interrupted"
\* for every p, also one that accepts every integer, and p is not evaluated.
C10_CodeStep ==
    (op' = "code" /\ chain' = chain + 1) =>
        LET c == Outcome.code
            a == arg'[1]
        IN  /\ a.kind = "i32" => ((panic' = None) <=> (c = Some(a.value)))
            /\ c = None =>
                /\ IsSome(panic')
                /\ panic'[1][1] = Lit("Command interrupted\n")
                /\ evals' = evals
            /\ c # None =>
                /\ evals' = evals + 1
                /\ a.kind = "Predicate" => ((panic' = None) <=> (c[1] \in a.accepts))
                /\ a = Always => panic' = None

\* C10 as a property of every step: the verdict of each code() call
C10_Code == [][C10_CodeStep]_vars

\* code(always()) panicked on an interrupted run without evaluating always()
C10_Witness ==
    /\ op = "code"
    /\ arg = Some(Always)
    /\ Outcome.code = None
    /\ IsSome(panic)
    /\ evals = 0

\* the elements of a collection handed to code()
Members(a) == {a.items[i] : i \in 1..Len(a.items)}

IsCollection(a) == a.kind \in {"Vec", "slice"}

\* a code(S) call passes exactly when there is a code and it is in S
C11_CollectionStep ==
    (op' = "code" /\ chain' = chain + 1 /\ IsCollection(arg'[1])) =>
        /\ (panic' = None) <=> (IsSome(Outcome.code) /\ Outcome.code[1] \in Members(arg'[1]))
        /\ arg'[1].items = <<>> => IsSome(panic')

\* collections with the same elements give the same verdict on the Assert held
C11_OrderAndDuplicates ==
    IsSome(assertion) =>
        \A a, b \in {x \in CodeArgs : IsCollection(x)} :
            Members(a) = Members(b) =>
                (IsNone(Assert_code(assertion[1], a).panic)
                 <=> IsNone(Assert_code(assertion[1], b).panic))

\* C11: code(S) with a Vec or a slice S of integers passes if and only if the
\* outcome has an exit code that is an element of S; code of an empty
\* collection panics for every outcome, and neither the order nor the
\* duplicates of S change the verdict.
C11_CodeCollection == [](C11_OrderAndDuplicates) /\ [][C11_CollectionStep]_vars

\* code(vec![42, 2, 42]) passed on exit code 42
C11_Witness ==
    /\ op = "code"
    /\ IsSome(arg)
    /\ arg[1].kind = "Vec"
    /\ arg[1].items = <<42, 2, 42>>
    /\ Outcome.code = Some(42)
    /\ panic = None
    /\ IsSome(assertion)

\* the buffer a check of the chain looks at
Checks(name) == IF name = "stdout" THEN Outcome.stdout ELSE Outcome.stderr

\* an Assert that has the buffer the check looks at and nothing else of the run
OnlyChecked(name) ==
    Assert_new(IF name = "stdout" THEN Output(None, Outcome.stdout, <<>>)
               ELSE Output(None, <<>>, Outcome.stderr))

\* the verdict of the check on an Assert: None when it passes
Verdict(name, self, pred) ==
    IF name = "stdout" THEN Assert_stdout(self, pred) ELSE Assert_stderr(self, pred)

\* a stdout(s) / stderr(s) call with a text passes exactly when its buffer is
\* UTF-8 and is s; a failed check is the ordinary panic of that check; the
\* verdict is the one the check gives when the other buffer and the code are
\* erased
C12_TextStep ==
    (op' \in {"stdout", "stderr"} /\ chain' = chain + 1 /\ arg'[1].kind = "str") =>
        /\ (panic' = None) <=> (IsUtf8(Checks(op')) /\ Checks(op') = arg'[1].bytes)
        /\ ~IsUtf8(Checks(op')) =>
              /\ IsSome(panic')
              /\ panic'[1][1] = Lit(IF op' = "stdout" THEN "Unexpected stdout\n"
                                    ELSE "Unexpected stderr\n")
        /\ (panic' = None) <=> IsNone(Verdict(op', OnlyChecked(op'), arg'[1]))

\* C12: stdout(s) / stderr(s) with a text s passes if and only if the
\* respective captured buffer is valid UTF-8 and decodes to exactly s; a
\* buffer that is not UTF-8 makes the predicate false, so the check panics as
\* "Unexpected stdout" / "Unexpected stderr"; the stdout check does not
\* depend on the stderr bytes nor the stderr check on the stdout bytes.
C12_TextOutput == [][C12_TextStep]_vars

\* stdout("") panicked on a stdout that is not UTF-8
C12_Witness ==
    /\ op = "stdout"
    /\ IsSome(arg)
    /\ arg[1].kind = "str"
    /\ arg[1].bytes = <<>>
    /\ Outcome.stdout = <<195>>
    /\ IsSome(panic)

\* the argument of the call is a predicate object
IsPredicate(a) == a.kind \in {"Predicate", "BooleanPredicate"}

\* C13: the conversion of a value that is already a predicate returns it: for
\* every predicate p and value v, into_code(p), resp. into_output(p),
\* evaluates on v as p does, so code(p), stdout(p) and stderr(p) pass exactly
\* when p accepts the exit code, resp. the buffer, of the outcome.
C13_PassThroughStep ==
    (op' \in {"code", "stdout", "stderr"} /\ chain' = chain + 1 /\ IsPredicate(arg'[1])) =>
        LET p == arg'[1] IN
        IF op' = "code"
        THEN /\ into_code(p) = p
             /\ \A v \in Codes \cup {-1, 2} : eval(into_code(p), v) = eval(p, v)
             /\ IsSome(Outcome.code) =>
                   ((panic' = None) <=> (p = Always \/ Outcome.code[1] \in p.accepts))
        ELSE /\ into_output(p) = p
             /\ \A v \in StdoutBufs \cup StderrBufs :
                   eval_bytes(into_output(p), v) = eval_bytes(p, v)
             /\ (panic' = None) <=> (Checks(op') \in p.matches)

\* C13 as a property of every step: predicate conversion is a pass-through
C13_PassThrough == [][C13_PassThroughStep]_vars

\* stderr(p) passed on a stderr that is not UTF-8 and that p accepts
C13_Witness ==
    /\ op = "stderr"
    /\ IsSome(arg)
    /\ arg[1].kind = "Predicate"
    /\ arg[1].matches = {<<104, 10>>, <<195>>}
    /\ Outcome.stderr = <<195>>
    /\ panic = None

\* the receiver's output() returned an io::Error
OutputFailed ==
    \/ world.launch # "ok"
    \/ recv.kind = "StdInCommand" /\ world.write # "ok"

EntryCalls == {"ok", "unwrap", "unwrap_err", "assert"}

\* at most one run, and none for a captured outcome
C15_AtMostOnce ==
    /\ attempts <= 1
    /\ spawns <= attempts
    /\ recv.kind = "Output" => (attempts = 0 /\ spawns = 0 /\ child = "none")
    /\ (op # "none" /\ recv.kind # "Output") => attempts = 1

\* the entry call runs the specification once; nothing after it runs anything
C15_RunStep ==
    /\ (op = "none" /\ op' \in EntryCalls /\ recv.kind # "Output") =>
          /\ attempts' = 1
          /\ spawns' = IF world.launch = "ok" THEN 1 ELSE 0
    /\ op # "none" =>
          /\ attempts' = attempts
          /\ spawns' = spawns
          /\ child' = child

ChainChecks == {"success", "failure", "interrupted", "code", "stdout", "stderr"}

\* the first line of the panic of each check
Violations(name) ==
    CASE name = "success" -> {Lit("Unexpected failure.\n"), Lit("Unexpected failure.\ncode-")}
      [] name = "failure" -> {Lit("Unexpected success\n")}
      [] name = "interrupted" -> {Lit("Unexpected completion\n")}
      [] name = "code" -> {Lit("Command interrupted\n"), Lit("Unexpected return code\n")}
      [] name = "stdout" -> {Lit("Unexpected stdout\n")}
      [] name = "stderr" -> {Lit("Unexpected stderr\n")}

\* a panic of the chain is the violation of the last check called, and the
\* Assert is gone with it
C16_PanicNamesCheck ==
    (IsSome(panic) /\ op \in ChainChecks) =>
        /\ panic[1][1] \in Violations(op)
        /\ assertion = None

\* every call runs after all earlier calls passed; a call of success, failure
\* or interrupted panics exactly when its own check does not hold for the
\* outcome, whatever was checked before; a passing check hands the Assert on
C16_OrderStep ==
    /\ panic = None
    /\ (op' \in ChainChecks /\ chain' = chain + 1) =>
          /\ IsSome(assertion)
          /\ IsSome(panic') <=> assertion' = None
          /\ panic' = None => assertion' = assertion
          /\ op' = "success" => (IsSome(panic') <=> Outcome.code # Some(0))
          /\ op' = "failure" => (IsSome(panic') <=> Outcome.code = Some(0))
          /\ op' = "interrupted" => (IsSome(panic') <=> IsSome(Outcome.code))
          /\ op' \notin {"code"} => evals' = evals

\* C16: the checks of a chain run in call order: the chain panics at the first
\* check that does not hold for the outcome, the panic names that check's
\* violation, and no check after it is evaluated.
C16_ChainOrder == [](C16_PanicNamesCheck) /\ [][C16_OrderStep]_vars

\* a chain whose first check passed and whose second check, failure(), panicked
C16_Witness ==
    /\ op = "failure"
    /\ chain = 2
    /\ IsSome(panic)
    /\ panic[1][1] = Lit("Unexpected success\n")
    /\ assertion = None

\* the Assert holds the outcome of the run for as long as it exists
C17_OutcomeKept == IsSome(assertion) => get_output(assertion[1]) = Outcome

\* a passing check returns the Assert as it was; append_context keeps the
\* outcome and the pairs it found and puts one pair after them
C17_FrameStep ==
    /\ (op' \in ChainChecks /\ chain' = chain + 1 /\ panic' = None) =>
          /\ get_output(assertion'[1]) = get_output(assertion[1])
          /\ assertion'[1].context = assertion[1].context
    /\ (op' = "append_context" /\ chain' = chain + 1) =>
          LET old == assertion[1].context
              new == assertion'[1].context
          IN  /\ panic' = None
              /\ get_output(assertion'[1]) = get_output(assertion[1])
              /\ Len(new) = Len(old) + 1
              /\ SubSeq(new, 1, Len(old)) = old
              /\ new[Len(new)] = [name |-> "main", context |-> <<104>>]

\* C17: after any sequence of passing checks the outcome get_output() returns
\* and the context list are what they were before it; only append_context
\* changes the Assert: it appends one pair at the end of the context list and
\* never changes the outcome.
C17_Frame == [](C17_OutcomeKept) /\ [][C17_FrameStep]_vars

\* a pair was appended to the two pairs of a StdInCommand's Assert, and a
\* passing check followed
C17_Witness ==
    /\ op = "success"
    /\ chain = 2
    /\ panic = None
    /\ recv.kind = "StdInCommand"
    /\ IsSome(assertion)
    /\ Len(assertion[1].context) = 3
    /\ assertion[1].context[3].name = "main"

\* the last n pieces of a message
Suffix(msg, n) == SubSeq(msg, Len(msg) - n + 1, Len(msg))

\* the pairs assert() puts on the Assert of the receiver
EntryContext ==
    (IF recv.kind # "Output"
     THEN <<[name |-> "command", context |-> DebugCommand(recv.argv)]>> ELSE <<>>)
    \o (IF recv.kind = "StdInCommand"
        THEN <<[name |-> "stdin", context |-> Content(recv.stdin)]>> ELSE <<>>)

\* the line of the exit code
CodeLine(code) ==
    IF IsSome(code) THEN <<Lit("code="), Txt(Dec(code[1])), Lit("\n")>>
    ELSE <<Lit("code=<interrupted>\n")>>

\* the panic of a check ends with the pairs of the Assert in append order, the
\* receiver's command and stdin first and the caller's labels after them, then
\* the code line, stdout and stderr
C18_RenderingStep ==
    (op' \in ChainChecks /\ chain' = chain + 1 /\ IsSome(panic')) =>
        LET ctx == assertion[1].context
            n == Len(ctx)
            e == Len(EntryContext)
            c == Len(CodeLine(Outcome.code))
            r == Suffix(panic'[1], 6 * n + c + 10)
        IN  /\ Len(panic'[1]) > 6 * n + c + 10
            /\ n >= e
            /\ SubSeq(ctx, 1, e) = EntryContext
            /\ \A i \in (e + 1)..n : ctx[i] = [name |-> "main", context |-> <<104>>]
            /\ \A i \in 1..n :
                  SubSeq(r, 6 * (i - 1) + 1, 6 * i) =
                      <<Lit(ctx[i].name), Lit("="), Tick(1), Txt(ctx[i].context), Tick(1),
                        Lit("\n")>>
            /\ SubSeq(r, 6 * n + 1, 6 * n + c) = CodeLine(Outcome.code)
            /\ SubSeq(r, 6 * n + c + 1, 6 * n + c + 10) =
                  <<Lit("stdout="), Tick(3), Txt(Content(Outcome.stdout)), Tick(3), Lit("\n"),
                    Lit("stderr="), Tick(3), Txt(Content(Outcome.stderr)), Tick(3), Lit("\n")>>

\* C18: every panic of success, failure, interrupted, code, stdout or stderr
\* carries the rendering of the Assert: every context pair in append order
\* (for a specification the command line first, then the stdin buffer when
\* there is one, then the caller's labels), then the exit code line, then
\* stdout, then stderr.
C18_PanicRendering == [][C18_RenderingStep]_vars

\* stderr() panicked on the Assert of a StdInCommand carrying a caller's label
C18_Witness ==
    /\ op = "stderr"
    /\ IsSome(panic)
    /\ recv.kind = "StdInCommand"
    /\ recv.stdin = <<52, 50>>
    /\ \E i \in 1..Len(panic[1]) : panic[1][i] = Lit("main")
    /\ \E i \in 1..Len(panic[1]) : panic[1][i] = Lit("stdin")

(***************************************************************************)
(* Properties of format_bytes, under FormatSpec                            *)
(***************************************************************************)
\* the lines of the escaped rendering of a buffer: "{:?}" of the buffer with
\* its newlines restored, without the two quotes
RenderedLines(d) ==
    LET r == restore_newlines(DebugBStr(d)) IN Lines(SubSeq(r, 2, Len(r) - 1))

\* "<n lines total>", "<n lines omitted>", "<n bytes total>", "...<n bytes omitted>..."
LinesTotal(n) == <<60>> \o Dec(n) \o <<32, 108, 105, 110, 101, 115, 32, 116, 111, 116, 97, 108, 62>>

LinesOmitted(n) ==
    <<60>> \o Dec(n) \o <<32, 108, 105, 110, 101, 115, 32, 111, 109, 105, 116, 116, 101, 100, 62>>

BytesTotal(n) == <<60>> \o Dec(n) \o <<32, 98, 121, 116, 101, 115, 32, 116, 111, 116, 97, 108, 62>>

BytesOmitted(n) ==
    <<46, 46, 46, 60>> \o Dec(n)
    \o <<32, 98, 121, 116, 101, 115, 32, 111, 109, 105, 116, 116, 101, 100, 62, 46, 46, 46>>

\* C19: for every buffer whose escaped rendering has L >= 40 lines, whatever
\* its length in bytes, format_bytes writes 21 lines: the header stating L
\* lines and, after an opening quote, the first 10 lines, the 10th closed by
\* a quote; the marker stating L - 20 lines omitted; the last 10 lines between
\* quotes.  No other line is written and none is written twice.
C19_LineTruncation ==
    (IsSome(written) /\ Len(RenderedLines(data)) >= 40) =>
        LET ls == RenderedLines(data)
            L == Len(ls)
            o == Lines(written[1])
        IN  /\ Len(o) = 21
            /\ o[1] = LinesTotal(L) \o <<34>> \o ls[1]
            /\ \A i \in 2..9 : o[i] = ls[i]
            /\ o[10] = ls[10] \o <<34>>
            /\ o[11] = LinesOmitted(L - 20)
            /\ o[12] = <<34>> \o ls[L - 9]
            /\ \A i \in 13..20 : o[i] = ls[L - 21 + i]
            /\ o[21] = ls[L] \o <<34>>
            /\ written[1][Len(written[1])] = 34

\* format_bytes wrote the 42 numbered lines of a buffer as 1..10 and 33..42
C19_Witness ==
    /\ IsSome(written)
    /\ data = NumberedLines(42)
    /\ Lines(written[1])[10] = <<49, 48, 34>>
    /\ Lines(written[1])[11] = LinesOmitted(22)
    /\ Lines(written[1])[12] = <<34, 51, 51>>
    /\ Lines(written[1])[21] = <<52, 50, 34>>

\* a span of bytes debug-quoted, its newline bytes written as line breaks
Quoted(span) ==
    <<34>>
    \o Concat([i \in 1..Len(span) |-> IF span[i] = 10 THEN <<10>> ELSE EscapeAt(span, i)])
    \o <<34>>

\* C20: for every buffer of B >= 8192 bytes whose escaped rendering has fewer
\* than 40 lines, format_bytes writes the header stating B bytes, the first
\* 2048 bytes debug-quoted, the marker stating B - 4096 bytes omitted, and the
\* last 2048 bytes debug-quoted; the two spans do not overlap and with the
\* omitted count they account for B bytes.
C20_ByteTruncation ==
    (IsSome(written) /\ Len(data) >= 8192 /\ Len(RenderedLines(data)) < 40) =>
        LET B == Len(data) IN
        /\ written[1] = BytesTotal(B)
                        \o Quoted(SubSeq(data, 1, 2048))
                        \o BytesOmitted(B - 4096)
                        \o Quoted(SubSeq(data, B - 2047, B))
        /\ 2048 < B - 2047
        /\ 2048 + (B - 4096) + 2048 = B

\* format_bytes cut a buffer of 8193 bytes with 27 newlines, one of its
\* line breaks being in the first span
C20_Witness ==
    /\ IsSome(written)
    /\ Len(data) = 8193
    /\ data[300] = 10
    /\ Len(RenderedLines(data)) = 28
    /\ SubSeq(written[1], 1, Len(BytesTotal(8193))) = BytesTotal(8193)
    /\ written[1][Len(BytesTotal(8193)) + 301] = 10

\* the buffer is valid text: each of its characters is a well-formed UTF-8
\* sequence
ValidText(b) == \A i \in 1..Len(b) : IsCharStart(b, i) => Utf8Len(b, i) > 0

\* C21 as stated: for every buffer with fewer than 40 rendered lines and fewer
\* than 8192 bytes, the text format_bytes writes has no header and no omission
\* marker (it opens and closes with a quote), and for a buffer of valid text
\* it is the text between quotes, each character as "{:?}" writes it and each
\* newline byte as a line break.
C21_WholeBufferShown ==
    (IsSome(written) /\ Len(RenderedLines(data)) < 40 /\ Len(data) < 8192) =>
        /\ written[1][1] = 34
        /\ written[1][Len(written[1])] = 34
        /\ ValidText(data) => written[1] = Quoted(data)

\* C22: format_bytes returns a rendering for every buffer and never panics:
\* neither assert! fails, no subtraction underflows, and the quote stripping,
\* the first and last lines and the first and last bytes are all in range.
C22_Total ==
    /\ fault = None
    /\ IsSome(written) =>
        /\ Len(written[1]) >= 2
        /\ written[1][Len(written[1])] = 34

\* format_bytes returned a rendering for a buffer of exactly 40 newlines
C22_Witness ==
    /\ data = Repeat(<<10>>, 40)
    /\ fault = None
    /\ IsSome(written)
    /\ SubSeq(written[1], 1, Len(LinesTotal(40))) = LinesTotal(40)

\* s begins with p
StartsWith(s, p) == Len(p) <= Len(s) /\ SubSeq(s, 1, Len(p)) = p

\* C23: 10 + 10 < 40 and 2048 + 2048 < 8192, and whenever format_bytes
\* truncates, the omitted count it states is at least 1 and it shows fewer
\* content lines (20 of L) or fewer raw bytes (4096 of B) than the buffer has.
C23_TruncationReduces ==
    /\ LINES_MAX_START + LINES_MAX_END < LINES_MIN_OVERFLOW
    /\ BYTES_MAX_START + BYTES_MAX_END < BYTES_MIN_OVERFLOW
    /\ IsSome(written) =>
        LET o == written[1]
            L == Len(RenderedLines(data))
            B == Len(data)
            at == Len(BytesTotal(B)) + Len(Quoted(SubSeq(data, 1, BYTES_MAX_START))) + 1
        IN  /\ o[1] = 60 => StartsWith(o, LinesTotal(L)) \/ StartsWith(o, BytesTotal(B))
            /\ StartsWith(o, LinesTotal(L)) =>
                /\ \E k \in 1..(L - 1) : Lines(o)[LINES_MAX_START + 1] = LinesOmitted(k)
                /\ Len(Lines(o)) - 1 = LINES_MAX_START + LINES_MAX_END
                /\ Len(Lines(o)) - 1 < L
            /\ StartsWith(o, BytesTotal(B)) =>
                /\ \E k \in 1..(B - 1) :
                      SubSeq(o, at, at + Len(BytesOmitted(k)) - 1) = BytesOmitted(k)
                /\ BYTES_MAX_START + BYTES_MAX_END < B

\* format_bytes truncated a buffer of exactly 40 lines and 20 were omitted
C23_Witness ==
    /\ IsSome(written)
    /\ data = Repeat(<<104, 10>>, 40)
    /\ Lines(written[1])[11] = LinesOmitted(20)
    /\ Len(Lines(written[1])) = 21

\* C29 as stated: for every buffer of valid text, the rendering has as many
\* line breaks as the buffer has newline bytes: a buffer with fewer than 40
\* lines and fewer than 8192 bytes is written without a header and with one
\* line break per newline byte, so a backslash followed by n adds none.
C29_OnlyRealNewlines ==
    (IsSome(written) /\ ValidText(data)
                     /\ Len(Lines(data)) < 40 /\ Len(data) < 8192) =>
        /\ written[1][1] = 34
        /\ Len(Newlines(written[1])) = Len(Newlines(data))

(***************************************************************************)
(* Properties of the NewlineRestorer, under RestoreSpec                    *)
(***************************************************************************)
\* s holds a backslash directly followed by n
HasEscapedNewline(s) == \E i \in 1..(Len(s) - 1) : s[i] = 92 /\ s[i + 1] = 110

\* C24: once the restorer is dropped, (a) the text of a string written in one
\* call is a fixed point of restore_newlines; (b) a string written in one
\* call that ends in one or more backslashes and holds no escaped newline
\* comes out unchanged; (c) a string written in two calls, the first ending
\* in an odd number of backslashes, comes out as when written in one call.
C24_Restore ==
    dropped =>
        LET s == Concat(chunks) IN
        /\ Len(chunks) <= 1 => restore_newlines(restorer.inner) = restorer.inner
        /\ (Len(chunks) <= 1 /\ TrailingBackslashes(s) >= 1 /\ ~HasEscapedNewline(s))
              => restorer.inner = s
        /\ (Len(chunks) = 2 /\ TrailingBackslashes(chunks[1]) % 2 = 1)
              => restorer.inner = restore_newlines(s)

\* the string h, backslash, n was written as "h\" and "n" and came out as h
\* and a newline
C24_Witness ==
    /\ dropped
    /\ chunks = <<<<104, 92>>, <<110>>>>
    /\ restorer.inner = <<104, 10>>

\* C28 as stated: however the string is cut into pieces, the text the inner
\* writer holds once the restorer is dropped is the text a single write_str
\* call of the whole string gives.
C28_SplitIndependent ==
    dropped => restorer.inner = restore_newlines(Concat(chunks))

C26_OutputReturns == <>(parent.pc = "returned")

\* C30 as stated: when output() has returned and a child was started, the
\* child has been waited for and output() returned its Output.
C30_StartedChildWaited ==
    (parent.pc = "returned" /\ proc.state # "none") =>
        (proc.state = "reaped" /\ parent.ret = Some("Ok"))

(***************************************************************************)
(* The chain as a pipeline of filters, under Spec                          *)
(***************************************************************************)
\* the check name(a) holds individually: made alone on a new Assert of the
\* outcome of the run, it does not panic
Holds(name, a) ==
    LET self == Assert_new(Outcome) IN
    CASE name = "success" -> IsNone(Assert_success(self))
      [] name = "failure" -> IsNone(Assert_failure(self))
      [] name = "interrupted" -> IsNone(Assert_interrupted(self))
      [] name = "code" -> IsNone(Assert_code(self, a[1]).panic)
      [] name = "stdout" -> IsNone(Assert_stdout(self, a[1]))
      [] name = "stderr" -> IsNone(Assert_stderr(self, a[1]))

\* a chain that has come through a check holds an Assert, and that check
\* holds individually
C27_PassedHolds ==
    (op \in ChainChecks /\ IsSome(assertion)) => Holds(op, arg)

\* a check of the chain passes exactly when it holds individually, whatever
\* was called before it; after a check, the chain of the two passes exactly
\* when both hold individually, and a check that is repeated passes again
C27_FilterStep ==
    (op' \in ChainChecks /\ chain' = chain + 1) =>
        /\ (panic' = None) <=> Holds(op', arg')
        /\ op \in ChainChecks =>
              /\ (panic' = None) <=> (Holds(op, arg) /\ Holds(op', arg'))
              /\ (op' = op /\ (arg' = arg \/ op \notin {"code", "stdout", "stderr"}))
                    => panic' = None

\* C27: a chain of checks completes without panic if and only if every check
\* in it holds individually for the outcome, so the verdict of the chain does
\* not depend on the order of its checks, and repeating a check that passed
\* changes nothing.
C27_Pipeline == [](C27_PassedHolds) /\ [][C27_FilterStep]_vars

\* the chain code(42) then stdout("h") completed on an outcome with code 42 and
\* stdout h
C27_Witness ==
    /\ op = "stdout"
    /\ chain = 2
    /\ IsSome(assertion)
    /\ panic = None
    /\ evals = 1
    /\ Outcome.code = Some(42)
    /\ Outcome.stdout = <<104>>
    /\ arg = Some([kind |-> "str", bytes |-> <<104>>, matches |-> {}])
====
